---- MODULE Spec2Model ----
(***************************************************************************)
(* Verification model of the gaudi backend's custom modeling code:         *)
(*   - Qwen2VLForConditionalGeneration.get_position_ids   (qwen2_vl.py)    *)
(*   - FlashLlamaAttention.forward             (flash_llama_modeling.py)   *)
(*   - Qwen2VisionModel.forward, Qwen2VLAttention.forward (qwen2_vl.py)    *)
(*   - FlashLlamaForCausalLM                   (flash_llama_modeling.py)   *)
(* Tensors are sequences (1-based in TLA+, 0-based values as in the code). *)
(***************************************************************************)
EXTENDS Integers, Sequences, FiniteSets, TLC

VARIABLES
    input_ids,        \* get_position_ids: the 1-D token tensor
    image_grid_thw,   \* get_position_ids: None or the rows (t, h, w) of the grid tensor
    pos_pc,           \* get_position_ids: "call" | "returned" | "raised"
    position_ids,     \* get_position_ids: the returned [len, 3] tensor
    cu_seqlen_prefill,\* FlashLlamaAttention.forward: None or the prefill boundaries
    slots,            \* FlashLlamaAttention.forward: one cache slot per incoming token
    query,            \* FlashLlamaAttention.forward: per token query, [tok, rotated]
    kv,               \* FlashLlamaAttention.forward: per token <<key, value>>
    kv_cache,         \* KVCache contents: slot -> None or <<key, value>>
    attn_output,      \* FlashLlamaAttention.forward: <<>> or <<the kernel that produced it>>
    events,           \* FlashLlamaAttention.forward: what this call invoked so far, in order
    attn_pc,          \* FlashLlamaAttention.forward: 0 outside a call, else the next statement
    calls,            \* number of forward calls made on this layer so far
    ctor,             \* FlashLlamaAttention / Qwen2VLAttention __init__: config, self, position
    moe,              \* Phi3MoE.forward on every rank of the process group
    gm,               \* get_model: arguments, globals, locals, position
    lora,             \* get_model_with_lora_adapters: the adapter loop
    fwd,              \* FlashLlamaModel.forward and FlashLlamaLayer.forward
    vis,              \* Qwen2VisionModel.forward and the attention of its blocks
    lm                \* FlashLlamaForCausalLM: __init__ and forward

pos_vars == <<input_ids, image_grid_thw, pos_pc, position_ids>>
attn_vars == <<cu_seqlen_prefill, slots, query, kv, kv_cache, attn_output, events, attn_pc, calls>>
ext_vars == <<ctor, moe, gm, lora, fwd, vis, lm>>
vars == <<input_ids, image_grid_thw, pos_pc, position_ids,
          cu_seqlen_prefill, slots, query, kv, kv_cache, attn_output, events, attn_pc, calls,
          ctor, moe, gm, lora, fwd, vis, lm>>

\* a subsystem that takes no part in the specification at hand
Idle == [pc |-> "idle"]

\* Optional[Tensor]: None, or a tensor with its rows
None == [none |-> TRUE, rows |-> <<>>]
Some(t) == [none |-> FALSE, rows |-> t]

(***************************************************************************)
(* Bounds of the model.                                                    *)
(***************************************************************************)
MaxSegments == 2
MaxText == 2
MaxVisionTokens == 5
MaxPad == 1
MaxLen == 10
NumSlots == 4
MaxTokens == 2
MaxCalls == 2

(***************************************************************************)
(* Configuration values of Qwen2VLForConditionalGeneration.                *)
(***************************************************************************)
vision_start_token_id == 1
vision_end_token_id == 2
image_token_id == 3
spatial_merge_size == 2
OtherTokens == {0}

(***************************************************************************)
(* Tensor helpers (torch semantics on 1-D tensors).                        *)
(***************************************************************************)
Arange(n) == [i \in 1..n |-> i - 1]

RECURSIVE Repeat(_, _)
Repeat(s, r) == IF r <= 0 THEN <<>> ELSE s \o Repeat(s, r - 1)

RECURSIVE RepeatInterleave(_, _)
RepeatInterleave(s, r) ==
    IF s = <<>> THEN <<>>
    ELSE [i \in 1..r |-> Head(s)] \o RepeatInterleave(Tail(s), r)

RECURSIVE Cumsum(_)
Cumsum(s) ==
    IF Len(s) <= 1 THEN s
    ELSE LET c == Cumsum(SubSeq(s, 1, Len(s) - 1))
         IN Append(c, c[Len(c)] + s[Len(s)])

\* torch.where(t == tok)[0]: the 0-based indices holding tok, ascending
Where(t, tok) == SelectSeq([i \in 1..Len(t) |-> i - 1], LAMBDA i : t[i + 1] = tok)

\* t[:-1]
ButLast(t) == IF Len(t) = 0 THEN <<>> ELSE SubSeq(t, 1, Len(t) - 1)

\* shapes [a] and [b] broadcast together
Broadcastable(a, b) == Len(a) = Len(b) \/ Len(a) = 1 \/ Len(b) = 1

BroadcastLen(a, b) ==
    IF Len(a) = Len(b) THEN Len(a)
    ELSE IF Len(a) = 1 THEN Len(b) ELSE Len(a)

At(a, i) == IF Len(a) = 1 THEN a[1] ELSE a[i]

BroadcastAdd(a, b) == [i \in 1..BroadcastLen(a, b) |-> At(a, i) + At(b, i)]
BroadcastSub(a, b) == [i \in 1..BroadcastLen(a, b) |-> At(a, i) - At(b, i)]

\* a [3, L] tensor is <<row_t, row_h, row_w>>
AddScalar(p, c) == [a \in 1..3 |-> [j \in 1..Len(p[a]) |-> p[a][j] + c]]
Expand3(row) == <<row, row, row>>
Width(p) == Len(p[1])

SetMax(S) == CHOOSE x \in S : \A y \in S : y <= x
TensorMax(p) == SetMax({p[a][j] : a \in 1..3, j \in 1..Width(p)})

RECURSIVE CatDim1(_)
CatDim1(ps) ==
    IF ps = <<>> THEN <<<<>>, <<>>, <<>>>>
    ELSE LET rest == CatDim1(Tail(ps))
         IN [a \in 1..3 |-> Head(ps)[a] \o rest[a]]

\* mutant: .reshape(-1, 3) without the transpose
ReshapeWithoutTranspose(p) ==
    LET flat == p[1] \o p[2] \o p[3]
    IN [j \in 1..Width(p) |-> <<flat[3 * j - 2], flat[3 * j - 1], flat[3 * j]>>]

\* .reshape(3, -1).transpose(0, 1): [3, L] -> [L, 3]
Transpose01(p) == [j \in 1..Width(p) |-> <<p[1][j], p[2][j], p[3][j]>>]

(***************************************************************************)
(* get_position_ids, statement by statement.                               *)
(***************************************************************************)
vision_starts(ids) == Where(ids, vision_start_token_id)
vision_ends(ids) == Where(ids, vision_end_token_id)

\* torch.stack((vision_starts, vision_ends), dim=1)
vision_segments(ids) ==
    [i \in 1..Len(vision_starts(ids)) |-> <<vision_starts(ids)[i], vision_ends(ids)[i]>>]

prev_vision_end(ids) == <<0>> \o ButLast(vision_ends(ids))

SegmentStarts(ids) == [i \in 1..Len(vision_segments(ids)) |-> vision_segments(ids)[i][1]]

text_lengths_between_vision(ids) ==
    LET d == BroadcastSub(SegmentStarts(ids), prev_vision_end(ids))
    IN [i \in 1..Len(d) |-> d[i] + 1]

vision_widths_max(grid) ==
    <<0>> \o [i \in 1..Len(ButLast(grid)) |-> grid[i][3] \div spatial_merge_size]

vision_segment_lengths(ids, grid) ==
    Cumsum(BroadcastAdd(vision_widths_max(grid), text_lengths_between_vision(ids)))

text_segment_lengths(ids, grid) ==
    BroadcastSub(vision_segment_lengths(ids, grid), text_lengths_between_vision(ids))

\* mutant: the height axis tiled with repeat instead of repeat_interleave
image_position_ids_tiled_height(t, h, w) ==
    LET t_indices == RepeatInterleave(Arange(t), h * w)
        h_indices == Repeat(Arange(h), w * t)
        w_indices == Repeat(Arange(w), t * h)
    IN <<t_indices, h_indices, w_indices>>

\* the body of the loop over vision_segments, before the offset is added
image_position_ids(t, h, w) ==
    LET t_indices == RepeatInterleave(Arange(t), h * w)
        h_indices == Repeat(RepeatInterleave(Arange(h), w), t)
        w_indices == Repeat(Arange(w), t * h)
    IN <<t_indices, h_indices, w_indices>>

llm_pos_ids_list(ids, grid) ==
    [i \in 1..Len(vision_segments(ids)) |->
        LET t == grid[i][1]
            h == grid[i][2] \div spatial_merge_size
            w == grid[i][3] \div spatial_merge_size
        IN AddScalar(image_position_ids(t, h, w), vision_segment_lengths(ids, grid)[i])]

text_ranges(ids, grid) ==
    [i \in 1..Len(text_lengths_between_vision(ids)) |->
        AddScalar(Expand3(Arange(text_lengths_between_vision(ids)[i])),
                  text_segment_lengths(ids, grid)[i])]

\* mutant: zip(llm_pos_ids_list, text_ranges), the vision piece first
ZipFlattenVisionFirst(a, b) ==
    LET n == IF Len(a) < Len(b) THEN Len(a) ELSE Len(b)
    IN [k \in 1..(2 * n) |-> IF k % 2 = 1 THEN b[(k + 1) \div 2] ELSE a[k \div 2]]

\* [item for sublist in zip(text_ranges, llm_pos_ids_list) for item in sublist]
ZipFlatten(a, b) ==
    LET n == IF Len(a) < Len(b) THEN Len(a) ELSE Len(b)
    IN [k \in 1..(2 * n) |-> IF k % 2 = 1 THEN a[(k + 1) \div 2] ELSE b[k \div 2]]

\* mutant: the trailing text starts at the maximum instead of one past it
max_s_without_increment(ids, grid) ==
    LET full == ZipFlatten(text_ranges(ids, grid), llm_pos_ids_list(ids, grid))
    IN TensorMax(full[Len(full)])

max_s(ids, grid) ==
    LET full == ZipFlatten(text_ranges(ids, grid), llm_pos_ids_list(ids, grid))
    IN TensorMax(full[Len(full)]) + 1

final_text_len(ids) == Len(ids) - vision_ends(ids)[Len(vision_ends(ids))]

full_llm_pos_ids_list(ids, grid) ==
    LET full == ZipFlatten(text_ranges(ids, grid), llm_pos_ids_list(ids, grid))
    IN IF final_text_len(ids) > 0
       THEN Append(full, AddScalar(Expand3(Arange(final_text_len(ids))), max_s(ids, grid)))
       ELSE full

\* The statements of get_position_ids that raise instead of computing a value.
PositionIdsRaises(ids, grid) ==
    \* torch.stack of tensors of different sizes
    IF Len(vision_starts(ids)) # Len(vision_ends(ids)) THEN TRUE
    ELSE
        \* vision_segments[:, 0] - prev_vision_end: shapes that do not broadcast
        \/ ~Broadcastable(vision_starts(ids), prev_vision_end(ids))
        \* vision_widths_max + text_lengths_between_vision: shapes that do not broadcast
        \/ ~Broadcastable(vision_widths_max(grid), text_lengths_between_vision(ids))
        \* image_grid_thw[i] for a segment without a grid row
        \/ Len(vision_starts(ids)) > Len(grid)
        \* torch.arange of a negative length
        \/ \E i \in 1..Len(text_lengths_between_vision(ids)) :
                text_lengths_between_vision(ids)[i] < 0
        \* full_llm_pos_ids_list[-1] and vision_ends[-1] of an empty list
        \/ Len(vision_starts(ids)) = 0
        \* .max() of an empty tensor
        \/ /\ Len(vision_starts(ids)) \in 1..Len(grid)
           /\ LET g == grid[Len(vision_starts(ids))]
              IN g[1] * (g[2] \div spatial_merge_size) * (g[3] \div spatial_merge_size) = 0

\* mutant: torch.arange(1, n + 1)
ArangeRepeat3FromOne(n) == [i \in 1..n |-> <<i, i, i>>]

\* torch.arange(n).unsqueeze(1).repeat(1, 3)
ArangeRepeat3(n) == [i \in 1..n |-> <<Arange(n)[i], Arange(n)[i], Arange(n)[i]>>]

get_position_ids(ids, grid) ==
    IF grid.none
    THEN ArangeRepeat3(Len(ids))
    ELSE Transpose01(CatDim1(full_llm_pos_ids_list(ids, grid.rows)))

(***************************************************************************)
(* Inputs of get_position_ids: text runs and vision segments in a row.     *)
(***************************************************************************)
MergedGrids ==
    {g \in (1..MaxVisionTokens) \X (1..MaxVisionTokens) \X (1..MaxVisionTokens) :
        g[1] * g[2] * g[3] <= MaxVisionTokens}

RawGrid(g) == <<g[1], g[2] * spatial_merge_size, g[3] * spatial_merge_size>>

Fill(tok, n) == [i \in 1..n |-> tok]

RECURSIVE BuildIds(_, _, _, _)
\* texts[1], segment 1, texts[2], ..., segment n, texts[n+1]
BuildIds(texts, grids, pads, other) ==
    IF grids = <<>> THEN Fill(other, texts[1])
    ELSE Fill(other, Head(texts))
         \o <<vision_start_token_id>>
         \o Fill(image_token_id, Head(grids)[1] * Head(grids)[2] * Head(grids)[3] + Head(pads))
         \o <<vision_end_token_id>>
         \o BuildIds(Tail(texts), Tail(grids), Tail(pads), other)

GridsWithin(budget) == {g \in MergedGrids : g[1] * g[2] * g[3] <= budget}

Min(a, b) == IF a < b THEN a ELSE b

RECURSIVE Layouts(_, _)
\* every <<texts, grids, pads>> with n segments whose tokens number at most budget
Layouts(n, budget) ==
    IF n = 0
    THEN {<<<<k>>, <<>>, <<>>>> : k \in 0..Min(MaxText, budget)}
    ELSE UNION {
            UNION {
                UNION {
                    {<<<<k>> \o r[1], <<g>> \o r[2], <<p>> \o r[3]>> :
                        r \in Layouts(n - 1, budget - k - 2 - g[1] * g[2] * g[3] - p)}
                    : p \in 0..Min(MaxPad, budget - k - 2 - g[1] * g[2] * g[3])}
                : g \in GridsWithin(budget - k - 2)}
            : k \in 0..Min(MaxText, budget - 3)}

AllLayouts == UNION {Layouts(n, MaxLen) : n \in 0..MaxSegments}

\* Callers may also hand over a token tensor and a grid tensor that do not
\* belong together: a marker without its partner, or a grid row too many or
\* too few for the marker pairs.
Defects == {"none", "extra_start", "extra_end", "extra_grid", "missing_grid"}

IdsWithDefect(ids, defect) ==
    IF defect = "extra_start" THEN Append(ids, vision_start_token_id)
    ELSE IF defect = "extra_end" THEN Append(ids, vision_end_token_id)
    ELSE ids

GridWithDefect(rows, defect) ==
    IF defect = "extra_grid" THEN Append(rows, RawGrid(<<1, 1, 1>>))
    ELSE IF defect = "missing_grid" THEN ButLast(rows)
    ELSE rows

PosInit ==
    /\ ctor = Idle /\ moe = Idle /\ gm = Idle /\ lora = Idle /\ fwd = Idle /\ vis = Idle /\ lm = Idle
    /\ cu_seqlen_prefill = None
    /\ slots = <<>>
    /\ query = <<>>
    /\ kv = <<>>
    /\ kv_cache = <<>>
    /\ attn_output = <<>>
    /\ events = <<>>
    /\ attn_pc = 0
    /\ calls = 0
    /\ pos_pc = "call"
    /\ position_ids = <<>>
    /\ \E l \in AllLayouts, other \in OtherTokens, defect \in Defects :
        /\ input_ids = IdsWithDefect(BuildIds(l[1], l[2], l[3], other), defect)
        /\ image_grid_thw \in
             {None, Some(GridWithDefect([i \in 1..Len(l[2]) |-> RawGrid(l[2][i])], defect))}

GetPositionIdsReturns ==
    /\ pos_pc = "call"
    /\ image_grid_thw.none \/ ~PositionIdsRaises(input_ids, image_grid_thw.rows)
    /\ position_ids' = get_position_ids(input_ids, image_grid_thw)
    /\ pos_pc' = "returned"
    /\ UNCHANGED <<input_ids, image_grid_thw>>
    /\ UNCHANGED attn_vars
    /\ UNCHANGED ext_vars

GetPositionIdsRaises ==
    /\ pos_pc = "call"
    /\ ~image_grid_thw.none
    /\ PositionIdsRaises(input_ids, image_grid_thw.rows)
    /\ pos_pc' = "raised"
    /\ UNCHANGED <<input_ids, image_grid_thw, position_ids>>
    /\ UNCHANGED attn_vars
    /\ UNCHANGED ext_vars

PosNext == GetPositionIdsReturns \/ GetPositionIdsRaises

SpecPos == PosInit /\ [][PosNext]_vars

(***************************************************************************)
(* FlashLlamaAttention.forward: one call is the projection and split, then *)
(* the statements of ForwardBody in order.                                 *)
(***************************************************************************)
\* mutant: the cache store moved behind the attention kernel
ForwardBodyStoreLast == <<"rotary_emb", "attention_kernel", "kv_cache.store", "o_proj">>

\* the statements that follow the qkv projection, in program order
ForwardBody == <<"rotary_emb", "kv_cache.store", "attention_kernel", "o_proj">>

AtStatement(name) == attn_pc \in 1..Len(ForwardBody) /\ ForwardBody[attn_pc] = name

\* mutant: the branch taken on the number of tokens instead of cu_seqlen_prefill
IsPrefillByTokenCount == Len(slots) > 1

\* "if cu_seqlen_prefill is not None"
IsPrefill == ~cu_seqlen_prefill.none

Tokens == 1..Len(slots)

\* the key/value this call holds for every token are in the cache at its slot
Stored(cache) == \A n \in Tokens : cache[slots[n]] = kv[n]

KeysRotated == \A n \in Tokens : kv[n][1].rotated /\ query[n].rotated

Event(op, args) ==
    [op |-> op, args |-> args, rotated |-> KeysRotated, stored |-> Stored(kv_cache)]

FreeSlots == {s \in 1..NumSlots : kv_cache[s] = <<>>}

\* ascending sequences of n distinct elements of S
RECURSIVE AscendingSeqs(_, _)
AscendingSeqs(S, n) ==
    IF n = 0 THEN {<<>>}
    ELSE UNION {{<<x>> \o r : r \in AscendingSeqs({y \in S : y > x}, n - 1)} : x \in S}

AttnInit ==
    /\ ctor = Idle /\ moe = Idle /\ gm = Idle /\ lora = Idle /\ fwd = Idle /\ vis = Idle /\ lm = Idle
    /\ input_ids = <<>>
    /\ image_grid_thw = None
    /\ pos_pc = "idle"
    /\ position_ids = <<>>
    /\ cu_seqlen_prefill = None
    /\ slots = <<>>
    /\ query = <<>>
    /\ kv = <<>>
    /\ attn_output = <<>>
    /\ events = <<>>
    /\ attn_pc = 0
    /\ calls = 0
    /\ kv_cache = [s \in 1..NumSlots |-> <<>>]

\* entry of forward: qkv = self.query_key_value(...), split, view
QueryKeyValue ==
    /\ attn_pc = 0
    /\ calls < MaxCalls
    /\ \E n \in 1..MaxTokens, prefill \in BOOLEAN :
        /\ \E sl \in AscendingSeqs(FreeSlots, n) : slots' = sl
        /\ cu_seqlen_prefill' = IF prefill THEN Some(<<0, n>>) ELSE None
        /\ query' = [t \in 1..n |-> [call |-> calls + 1, tok |-> t, rotated |-> FALSE]]
        /\ kv' = [t \in 1..n |->
                    <<[call |-> calls + 1, tok |-> t, rotated |-> FALSE],
                      [call |-> calls + 1, tok |-> t, rotated |-> FALSE]>>]
    /\ calls' = calls + 1
    /\ events' = <<>>
    /\ attn_output' = <<>>
    /\ attn_pc' = 1
    /\ UNCHANGED kv_cache
    /\ UNCHANGED pos_vars
    /\ UNCHANGED ext_vars

\* self.rotary_emb(query, torch.select(kv, dim=1, index=0), cos, sin): in place
RotaryEmb ==
    /\ AtStatement("rotary_emb")
    /\ query' = [t \in Tokens |-> [query[t] EXCEPT !.rotated = TRUE]]
    /\ kv' = [t \in Tokens |-> <<[kv[t][1] EXCEPT !.rotated = TRUE], kv[t][2]>>]
    /\ events' = Append(events, Event("rotary_emb", {"query", "key", "cos", "sin"}))
    /\ attn_pc' = attn_pc + 1
    /\ UNCHANGED <<cu_seqlen_prefill, slots, kv_cache, attn_output, calls>>
    /\ UNCHANGED pos_vars
    /\ UNCHANGED ext_vars

\* kv_cache.store(key=kv[:, 0], value=kv[:, 1], slots=slots, kv_scales=...)
KvCacheStore ==
    /\ AtStatement("kv_cache.store")
    /\ kv_cache' = [s \in 1..NumSlots |->
                        IF \E n \in Tokens : slots[n] = s
                        THEN kv[CHOOSE n \in Tokens : slots[n] = s]
                        ELSE kv_cache[s]]
    /\ events' = Append(events, Event("kv_cache.store", {"key", "value", "slots", "kv_scales"}))
    /\ attn_pc' = attn_pc + 1
    /\ UNCHANGED <<cu_seqlen_prefill, slots, query, kv, attn_output, calls>>
    /\ UNCHANGED pos_vars
    /\ UNCHANGED ext_vars

\* prefill branch: attn_output = attention(query=, key=, value=, kv_scales=, kv_cache=, ...)
Attention ==
    /\ AtStatement("attention_kernel")
    /\ IsPrefill
    /\ events' = Append(events, Event("attention",
            {"query", "key", "value", "kv_scales", "kv_cache", "seqlen", "softmax_scale"}))
    /\ attn_output' = <<"attention">>
    /\ attn_pc' = attn_pc + 1
    /\ UNCHANGED <<cu_seqlen_prefill, slots, query, kv, kv_cache, calls>>
    /\ UNCHANGED pos_vars
    /\ UNCHANGED ext_vars

\* decode branch: attn_output = paged_attention(query, kv_cache, self.kv_head_mapping, ...)
PagedAttention ==
    /\ AtStatement("attention_kernel")
    /\ ~IsPrefill
    /\ events' = Append(events, Event("paged_attention",
            {"query", "kv_cache", "kv_head_mapping", "softmax_scale", "seqlen",
             "kv_scales", "hpu_attention_meta"}))
    /\ attn_output' = <<"paged_attention">>
    /\ attn_pc' = attn_pc + 1
    /\ UNCHANGED <<cu_seqlen_prefill, slots, query, kv, kv_cache, calls>>
    /\ UNCHANGED pos_vars
    /\ UNCHANGED ext_vars

\* return self.o_proj(attn_output.view(...), adapter_data)
OProj ==
    /\ AtStatement("o_proj")
    /\ events' = Append(events, Event("o_proj", {"attn_output", "adapter_data"}))
    /\ attn_pc' = 0
    /\ UNCHANGED <<cu_seqlen_prefill, slots, query, kv, kv_cache, attn_output, calls>>
    /\ UNCHANGED pos_vars
    /\ UNCHANGED ext_vars

AttnNext == QueryKeyValue \/ RotaryEmb \/ KvCacheStore \/ Attention \/ PagedAttention \/ OProj

SpecAttn == AttnInit /\ [][AttnNext]_vars

(***************************************************************************)
(* Properties of get_position_ids, stated on the returned tensor.          *)
(***************************************************************************)
Starts == vision_starts(input_ids)
Ends == vision_ends(input_ids)
NumSegments == Len(Starts)

\* row of token j (0-based) of the returned tensor
Row(j) == position_ids[j + 1]

\* merged grid (t, h // merge, w // merge) of segment i (1-based)
Merged(i) ==
    <<image_grid_thw.rows[i][1],
      image_grid_thw.rows[i][2] \div spatial_merge_size,
      image_grid_thw.rows[i][3] \div spatial_merge_size>>

VisionLen(i) == Merged(i)[1] * Merged(i)[2] * Merged(i)[3]

\* as many grids as marker pairs, each pair enclosing exactly t*h*w tokens
WellFormed ==
    /\ ~image_grid_thw.none
    /\ NumSegments >= 1
    /\ Len(Ends) = NumSegments
    /\ Len(image_grid_thw.rows) = NumSegments
    /\ \A i \in 1..NumSegments : Ends[i] - Starts[i] - 1 = VisionLen(i)

Returned == pos_pc = "returned"

\* 0-based token indices of vision segment i, and of the text run before it
VisionTokens(i) == (Starts[i] + 1)..(Ends[i] - 1)
TextRunBefore(i) == (IF i = 1 THEN 0 ELSE Ends[i - 1])..Starts[i]
TrailingTokens == Ends[NumSegments]..(Len(input_ids) - 1)

RowMax(r) == SetMax({r[1], r[2], r[3]})
RowsMax(J) == SetMax({RowMax(Row(j)) : j \in J})

\* the ids relative to the offset: row-major product, temporal slowest
GridTriple(n, g) == <<n \div (g[2] * g[3]), (n \div g[3]) % g[2], n % g[3]>>

\* C1: with exactly one vision segment of merged grid (t,h,w), k tokens up to
\* and including the start marker and m tokens from the end marker on, the
\* result is 0..k-1 on all axes, then k + (n div (h*w), (n div w) mod h, n mod w)
\* for the n-th vision token, then max(vision ids)+1, +2, ... on all axes.
C1_SingleSegment ==
    (Returned /\ WellFormed /\ NumSegments = 1) =>
        LET k == Starts[1] + 1
            g == Merged(1)
            nv == VisionLen(1)
            m == Len(input_ids) - Ends[1]
        IN /\ Len(position_ids) = k + nv + m
           /\ \A j \in 0..(k - 1) : Row(j) = <<j, j, j>>
           /\ \A n \in 0..(nv - 1) :
                Row(k + n) = <<k + GridTriple(n, g)[1], k + GridTriple(n, g)[2],
                               k + GridTriple(n, g)[3]>>
           /\ \A r \in 0..(m - 1) :
                LET top == RowsMax(VisionTokens(1))
                IN Row(k + nv + r) = <<top + 1 + r, top + 1 + r, top + 1 + r>>

\* the spec's example: t=1,h=2,w=2 after 3 tokens and before 2 tokens
C1_Witness ==
    /\ Returned
    /\ input_ids = <<0, 0, 1, 3, 3, 3, 3, 2, 0>>
    /\ image_grid_thw = Some(<<<<1, 4, 4>>>>)
    /\ position_ids = <<<<0, 0, 0>>, <<1, 1, 1>>, <<2, 2, 2>>,
                        <<3, 3, 3>>, <<3, 3, 4>>, <<3, 4, 3>>, <<3, 4, 4>>,
                        <<5, 5, 5>>, <<6, 6, 6>>>>

\* C2: every id (any axis) of a token of vision segment i is strictly greater
\* than every id of every token of the preceding text runs and vision segments.
C2_NoOverlap ==
    (Returned /\ WellFormed /\ NumSegments >= 2) =>
        \A i \in 1..NumSegments : \A j \in VisionTokens(i) : \A j2 \in 0..Starts[i] :
            \A a \in 1..3, b \in 1..3 : Row(j)[a] > Row(j2)[b]

\* C3: the text run between vision segments i-1 and i starts at exactly the
\* maximum id (over the three axes) of segment i-1, plus one.
C3_TextRunStart ==
    (Returned /\ WellFormed) =>
        \A i \in 2..NumSegments :
            LET top == RowsMax(VisionTokens(i - 1))
            IN Row(Ends[i - 1]) = <<top + 1, top + 1, top + 1>>

\* C4: the tokens from the last vision-end marker on get g+1, g+2, ... on all
\* axes, g being the maximum id of any earlier token on any axis.
C4_TrailingFromGlobalMax ==
    (Returned /\ WellFormed) =>
        LET g == RowsMax(0..(Ends[NumSegments] - 1))
        IN \A j \in TrailingTokens :
            LET r == j - Ends[NumSegments]
            IN Row(j) = <<g + 1 + r, g + 1 + r, g + 1 + r>>

\* C5: in every vision segment of merged grid (t,h,w) the n-th token gets
\* off + (n div (h*w), (n div w) mod h, n mod w), one offset off for the three axes.
C5_RowMajorGrid ==
    (Returned /\ WellFormed) =>
        \A i \in 1..NumSegments :
            LET off == Row(Starts[i] + 1)[1]
                g == Merged(i)
            IN \A n \in 0..(VisionLen(i) - 1) :
                Row(Starts[i] + 1 + n) =
                    <<off + GridTriple(n, g)[1], off + GridTriple(n, g)[2],
                      off + GridTriple(n, g)[3]>>

\* two segments, the second one with more than one frame, row and column
C5_Witness ==
    /\ Returned /\ WellFormed /\ NumSegments = 2
    /\ \E i \in 1..2 : Cardinality({d \in 1..3 : Merged(i)[d] >= 2}) >= 2
    /\ Row(Starts[2] + 1)[1] > 0

\* C6: without grids the result has one row (i, i, i) per token i, whatever
\* the tokens are (markers included, no tokens included), and the call returns.
C6_NoGridsSequential ==
    image_grid_thw.none =>
        /\ pos_pc # "raised"
        /\ Returned =>
            /\ Len(position_ids) = Len(input_ids)
            /\ \A i \in 0..(Len(input_ids) - 1) : Row(i) = <<i, i, i>>

C6_Witness ==
    /\ Returned /\ image_grid_thw.none
    /\ NumSegments >= 1 /\ Len(Ends) >= 1
    /\ Len(position_ids) >= 4

\* C7: every token of a text run (before, between, after the vision segments,
\* markers included) has one id on the three axes, and consecutive tokens of a
\* run differ by exactly 1.
IsRun(J) ==
    /\ \A j \in J : Row(j)[1] = Row(j)[2] /\ Row(j)[2] = Row(j)[3]
    /\ \A j \in J : (j + 1) \in J => Row(j + 1)[1] = Row(j)[1] + 1

C7_TextRunsContiguous ==
    (Returned /\ WellFormed) =>
        /\ \A i \in 1..NumSegments : IsRun(TextRunBefore(i))
        /\ IsRun(TrailingTokens)

C7_Witness ==
    /\ Returned /\ WellFormed /\ NumSegments = 2
    /\ Cardinality(TextRunBefore(1)) >= 2
    /\ Cardinality(TextRunBefore(2)) >= 3
    /\ Cardinality(TrailingTokens) >= 2

\* C8: when each marker pair has its grid and encloses exactly t*h*w tokens,
\* the call returns len(input_ids) rows of 3 columns, the pieces in the input's
\* order: text run, vision segment, text run, ..., trailing text.
PieceColumn(p, n) == <<p[1][n + 1], p[2][n + 1], p[3][n + 1]>>

C8_ShapeAndOrder ==
    WellFormed =>
        /\ pos_pc # "raised"
        /\ Returned =>
            /\ Len(position_ids) = Len(input_ids)
            /\ \A j \in 0..(Len(input_ids) - 1) : Len(Row(j)) = 3
            /\ \A i \in 1..NumSegments :
                /\ \A j \in TextRunBefore(i) :
                    Row(j) = PieceColumn(text_ranges(input_ids, image_grid_thw.rows)[i],
                                         j - (IF i = 1 THEN 0 ELSE Ends[i - 1]))
                /\ \A j \in VisionTokens(i) :
                    Row(j) = PieceColumn(llm_pos_ids_list(input_ids, image_grid_thw.rows)[i],
                                         j - Starts[i] - 1)
            /\ \A j \in TrailingTokens : Row(j)[1] = Row(Ends[NumSegments])[1] + j - Ends[NumSegments]

C8_Witness ==
    /\ Returned /\ WellFormed /\ NumSegments = 2
    /\ Len(position_ids) = Len(input_ids)
    /\ Cardinality(TextRunBefore(1)) >= 2
    /\ Cardinality(TrailingTokens) >= 2
    /\ VisionLen(1) >= 2

(***************************************************************************)
(* Properties of FlashLlamaAttention.forward.                              *)
(***************************************************************************)
Kernels == {"attention", "paged_attention"}
KernelEvents == {i \in 1..Len(events) : events[i].op \in Kernels}
Returning == calls >= 1 /\ attn_pc = 0

\* C9: in every forward call, prefill or decode, the rotary rotation of query
\* and key comes first, then the store of the rotated key and the value at the
\* slots, then the attention kernel; no kernel runs before the call's store.
C9_RotateStoreAttend ==
    /\ \A i \in KernelEvents :
        /\ events[i].stored /\ events[i].rotated
        /\ \E j \in 1..(i - 1) :
            /\ events[j].op = "kv_cache.store" /\ events[j].rotated
            /\ \E r \in 1..(j - 1) : events[r].op = "rotary_emb"
    /\ \A j \in 1..Len(events) : events[j].op = "kv_cache.store" => events[j].rotated
    /\ Returning =>
        /\ KernelEvents # {}
        /\ \A n \in Tokens : kv_cache[slots[n]] = kv[n] /\ kv_cache[slots[n]][1].rotated

\* a decode call that follows an earlier call, returned
C9_Witness ==
    /\ Returning /\ calls = 2 /\ ~IsPrefill
    /\ Len(slots) = 2
    /\ \E i \in KernelEvents : events[i].op = "paged_attention" /\ events[i].stored

\* C10: a forward call invokes exactly one attention kernel: attention (dense)
\* iff cu_seqlen_prefill is not None, paged_attention (with kv_head_mapping and
\* hpu_attention_meta) iff it is None.
C10_OneKernelByMode ==
    /\ Cardinality(KernelEvents) <= 1
    /\ \A i \in KernelEvents :
        /\ events[i].op = "attention" <=> ~cu_seqlen_prefill.none
        /\ events[i].op = "paged_attention" <=> cu_seqlen_prefill.none
        /\ events[i].op = "paged_attention" =>
            {"kv_head_mapping", "hpu_attention_meta"} \subseteq events[i].args
        /\ attn_output = <<events[i].op>>
    /\ Returning => Cardinality(KernelEvents) = 1

C10_Witness ==
    /\ Returning /\ calls = 2 /\ IsPrefill
    /\ \E i \in KernelEvents : events[i].op = "attention"

(***************************************************************************)
(* Construction of the attention layers: FlashLlamaAttention.__init__ and  *)
(* Qwen2VLAttention.__init__, one statement per step.  `ctor.loaded` logs   *)
(* the weights fetched so far, in order.                                    *)
(***************************************************************************)
MaxHeads == 4
MaxWorld == 2
MaxHeadDim == 2

\* weights.process_group.size()
WorldSizes == 1..MaxWorld

\* self.num_heads % weights.process_group.size() != 0, negated
HeadsDivisible(c) == c.config.num_attention_heads % c.world_size = 0

\* mutant: the second check dropped
KvHeadsUnchecked(c) == TRUE

\* config.num_key_value_heads % weights.process_group.size() != 0, negated
KvHeadsDivisible(c) == c.config.num_key_value_heads % c.world_size = 0

\* torch.arange(0, self.num_key_value_heads).repeat_interleave(self.num_groups)
kv_head_mapping(num_key_value_heads, num_groups) ==
    RepeatInterleave(Arange(num_key_value_heads), num_groups)

Unset == [num_heads |-> 0, num_key_value_heads |-> 0, embed_dim |-> 0,
          num_groups |-> 0, kv_head_mapping |-> <<>>]

CtorInit ==
    /\ moe = Idle /\ gm = Idle /\ lora = Idle /\ fwd = Idle /\ vis = Idle /\ lm = Idle
    /\ input_ids = <<>>
    /\ image_grid_thw = None
    /\ pos_pc = "idle"
    /\ position_ids = <<>>
    /\ cu_seqlen_prefill = None
    /\ slots = <<>>
    /\ query = <<>>
    /\ kv = <<>>
    /\ attn_output = <<>>
    /\ events = <<>>
    /\ attn_pc = 0
    /\ calls = 0
    /\ kv_cache = [s \in 1..NumSlots |-> <<>>]
    /\ \E ws \in WorldSizes :
        \/ \E h \in 1..MaxHeads, k \in 1..MaxHeads :
            ctor = [pc |-> "check_heads", cls |-> "FlashLlamaAttention",
                    config |-> [num_attention_heads |-> h, num_key_value_heads |-> k,
                                num_heads |-> 0, embed_dim |-> 0],
                    world_size |-> ws,
                    self |-> [Unset EXCEPT !.num_heads = h],
                    loaded |-> <<>>, raised |-> "none"]
        \/ \E h \in 1..MaxHeads, d \in 1..MaxHeadDim :
            ctor = [pc |-> "shard", cls |-> "Qwen2VLAttention",
                    config |-> [num_attention_heads |-> 0, num_key_value_heads |-> 0,
                                num_heads |-> h, embed_dim |-> h * d],
                    world_size |-> ws,
                    self |-> Unset,
                    loaded |-> <<>>, raised |-> "none"]

CtorAt(cls, pc) == ctor.pc = pc /\ ctor.cls = cls
CtorRest == <<pos_vars, attn_vars, moe, gm, lora, fwd, vis, lm>>
Raise(c, error) == [c EXCEPT !.pc = "raised", !.raised = error]

\* if self.num_heads % weights.process_group.size() != 0: raise ValueError
CheckHeads ==
    /\ CtorAt("FlashLlamaAttention", "check_heads")
    /\ ctor' = IF HeadsDivisible(ctor)
               THEN [ctor EXCEPT !.pc = "check_kv_heads"]
               ELSE Raise(ctor, "ValueError")
    /\ UNCHANGED CtorRest

\* if config.num_key_value_heads % weights.process_group.size() != 0: raise ValueError
CheckKvHeads ==
    /\ CtorAt("FlashLlamaAttention", "check_kv_heads")
    /\ ctor' = IF KvHeadsDivisible(ctor)
               THEN [ctor EXCEPT !.pc = "shard"]
               ELSE Raise(ctor, "ValueError")
    /\ UNCHANGED CtorRest

\* self.num_heads = self.num_heads // size; self.num_key_value_heads = ... // size
ShardHeads ==
    /\ CtorAt("FlashLlamaAttention", "shard")
    /\ ctor' = [ctor EXCEPT
                  !.pc = "load_attention",
                  !.self.num_heads = ctor.self.num_heads \div ctor.world_size,
                  !.self.num_key_value_heads =
                      ctor.config.num_key_value_heads \div ctor.world_size]
    /\ UNCHANGED CtorRest

\* self.query_key_value = load_attention(config, prefix, weights, index)
LoadAttention ==
    /\ CtorAt("FlashLlamaAttention", "load_attention")
    /\ ctor' = [ctor EXCEPT !.pc = "kv_scales",
                            !.loaded = Append(@, "query_key_value")]
    /\ UNCHANGED CtorRest

\* self.kv_scales = get_kv_scales(weights, f"{prefix}")
GetKvScales ==
    /\ CtorAt("FlashLlamaAttention", "kv_scales")
    /\ ctor' = [ctor EXCEPT !.pc = "o_proj", !.loaded = Append(@, "kv_scales")]
    /\ UNCHANGED CtorRest

\* o_proj = TensorParallelRowLinear.load(...); self.o_proj = ...
LoadOProj ==
    /\ CtorAt("FlashLlamaAttention", "o_proj")
    /\ ctor' = [ctor EXCEPT !.pc = "kv_head_mapping", !.loaded = Append(@, "o_proj")]
    /\ UNCHANGED CtorRest

\* self.num_groups = ...; self.kv_head_mapping = torch.arange(...).repeat_interleave(...)
KvHeadMapping ==
    /\ CtorAt("FlashLlamaAttention", "kv_head_mapping")
    /\ LET g == ctor.self.num_heads \div ctor.self.num_key_value_heads
       IN ctor' = [ctor EXCEPT
                     !.pc = "constructed",
                     !.self.num_groups = g,
                     !.self.kv_head_mapping =
                         kv_head_mapping(ctor.self.num_key_value_heads, g)]
    /\ UNCHANGED CtorRest

\* forward calls on the constructed layer
ConstructedForward ==
    /\ CtorAt("FlashLlamaAttention", "constructed")
    /\ AttnNext

\* self.embed_dim = config.embed_dim // size; self.num_heads = config.num_heads // size
QwenShardHeads ==
    /\ CtorAt("Qwen2VLAttention", "shard")
    /\ ctor' = [ctor EXCEPT
                  !.pc = "load_qkv",
                  !.self.embed_dim = ctor.config.embed_dim \div ctor.world_size,
                  !.self.num_heads = ctor.config.num_heads \div ctor.world_size]
    /\ UNCHANGED CtorRest

\* self.qkv = TensorParallelColumnLinear.load_qkv(..., num_heads=self.num_heads, ...)
\* The loader is outside this repository: with a head count the world size
\* does not divide it may return a layer or raise.
QwenLoadQkv ==
    /\ CtorAt("Qwen2VLAttention", "load_qkv")
    /\ \/ ctor' = [ctor EXCEPT !.pc = "proj", !.loaded = Append(@, "qkv")]
       \/ /\ ctor.config.num_heads % ctor.world_size # 0
          /\ ctor' = Raise(ctor, "load_qkv")
    /\ UNCHANGED CtorRest

\* self.qkv.linear.bias = weights.get_sharded(...); self.proj = TensorParallelRowLinear.load(...)
QwenLoadProj ==
    /\ CtorAt("Qwen2VLAttention", "proj")
    /\ ctor' = [ctor EXCEPT !.pc = "softmax_scale",
                            !.loaded = ctor.loaded \o <<"qkv.bias", "proj">>]
    /\ UNCHANGED CtorRest

\* self.softmax_scale = 1.0 / np.sqrt(self.embed_dim // self.num_heads)
QwenSoftmaxScale ==
    /\ CtorAt("Qwen2VLAttention", "softmax_scale")
    /\ ctor' = IF ctor.self.num_heads = 0
               THEN Raise(ctor, "ZeroDivisionError")
               ELSE [ctor EXCEPT !.pc = "constructed"]
    /\ UNCHANGED CtorRest

CtorNext ==
    \/ CheckHeads \/ CheckKvHeads \/ ShardHeads \/ LoadAttention \/ GetKvScales
    \/ LoadOProj \/ KvHeadMapping \/ ConstructedForward
    \/ QwenShardHeads \/ QwenLoadQkv \/ QwenLoadProj \/ QwenSoftmaxScale

SpecCtor == CtorInit /\ [][CtorNext]_vars

(***************************************************************************)
(* Properties of the constructors.                                         *)
(***************************************************************************)
IsLlamaCtor == ctor.cls = "FlashLlamaAttention"
IsQwenCtor == ctor.cls = "Qwen2VLAttention"
HeadsShardEvenly == ctor.config.num_attention_heads % ctor.world_size = 0
KvHeadsShardEvenly == ctor.config.num_key_value_heads % ctor.world_size = 0
Accepted == IsLlamaCtor /\ HeadsShardEvenly /\ KvHeadsShardEvenly
Constructed == ctor.pc = "constructed"
ShardH == ctor.self.num_heads
ShardK == ctor.self.num_key_value_heads
Mapping == ctor.self.kv_head_mapping

\* C11: FlashLlamaAttention.__init__ raises ValueError when the world size does
\* not divide num_attention_heads, and likewise num_key_value_heads, and it
\* raises before any attention weight (QKV, o_proj, kv scales) is loaded.
C11_RaisesBeforeLoading ==
    (IsLlamaCtor /\ ~Accepted) =>
        /\ ctor.loaded = <<>>
        /\ ctor.pc \in {"check_heads", "check_kv_heads", "raised"}
        /\ ctor.pc = "raised" => ctor.raised = "ValueError"
        /\ ~HeadsShardEvenly => ctor.pc # "check_kv_heads"

\* 4 heads pass the first check, 3 key-value heads fail the second, on 2 ranks
C11_Witness ==
    /\ IsLlamaCtor /\ ctor.pc = "raised" /\ ctor.raised = "ValueError"
    /\ ctor.config.num_attention_heads = 4 /\ ctor.config.num_key_value_heads = 3
    /\ ctor.world_size = 2 /\ ctor.loaded = <<>>

\* C12: for every configuration the FlashLlamaAttention constructor accepts,
\* with H and K the local query and key-value head counts, kv_head_mapping has
\* exactly H entries and entry q is q div (H/K), so every key-value head serves
\* one contiguous group of exactly H/K query heads; forward never changes it.
C12_MappingForAccepted ==
    (Accepted /\ Constructed) =>
        /\ Len(Mapping) = ShardH
        /\ \A q \in 0..(ShardH - 1) : Mapping[q + 1] = q \div (ShardH \div ShardK)
        /\ \A k \in 0..(ShardK - 1) :
            \E first \in 0..(ShardH - 1) :
                {q \in 0..(ShardH - 1) : Mapping[q + 1] = k}
                    = first..(first + (ShardH \div ShardK) - 1)

QwenHeadsShardEvenly == ctor.config.num_heads % ctor.world_size = 0

\* C16: constructing Qwen2VLAttention fails with a configuration error, at
\* construction time, whenever the world size does not divide config.num_heads;
\* it never goes on with the floor-divided head count.
C16_RejectsIndivisible ==
    (IsQwenCtor /\ ~QwenHeadsShardEvenly) =>
        /\ ctor.pc \in {"shard", "load_qkv", "raised"}
        /\ ctor.loaded = <<>>
        /\ ctor.pc = "raised" => ctor.raised = "ConfigurationError"

(***************************************************************************)
(* Phi3MoE.forward, run by every rank of the process group on the same     *)
(* call.  A rank's output is the set of ranks whose partial sums it holds;  *)
(* all_reduce is a collective: the n-th one a rank enters returns once      *)
(* every rank has entered its n-th.                                         *)
(***************************************************************************)
MaxRanks == 3
MaxForwards == 2

\* mutant: the reduction skipped on a pair of ranks
ReducesAboveTwoRanks(size) == size > 2

\* if self.process_group.size() > 1
ReducesAcrossRanks(size) == size > 1

Ranks == 1..moe.size

MoEInit ==
    /\ ctor = Idle /\ gm = Idle /\ lora = Idle /\ fwd = Idle /\ vis = Idle /\ lm = Idle
    /\ input_ids = <<>>
    /\ image_grid_thw = None
    /\ pos_pc = "idle"
    /\ position_ids = <<>>
    /\ cu_seqlen_prefill = None
    /\ slots = <<>>
    /\ query = <<>>
    /\ kv = <<>>
    /\ attn_output = <<>>
    /\ events = <<>>
    /\ attn_pc = 0
    /\ calls = 0
    /\ kv_cache = <<>>
    /\ \E size \in 1..MaxRanks :
        moe = [size |-> size,
               pc |-> [r \in 1..size |-> "gate"],
               call |-> [r \in 1..size |-> 1],
               entered |-> [r \in 1..size |-> 0],
               out |-> [r \in 1..size |-> {}],
               trace |-> [r \in 1..size |-> <<>>],
               returned |-> [r \in 1..size |-> <<>>]]

MoERest == <<pos_vars, attn_vars, ctor, gm, lora, fwd, vis, lm>>

\* router_logits = self.gate(x)
Gate(r) ==
    /\ moe.pc[r] = "gate"
    /\ moe' = [moe EXCEPT !.pc[r] = "moe", !.trace[r] = <<"gate">>, !.out[r] = {}]
    /\ UNCHANGED MoERest

\* out = self.moe(x, gating_output=router_logits): this rank's partial sum
Experts(r) ==
    /\ moe.pc[r] = "moe"
    /\ moe' = [moe EXCEPT
                 !.pc[r] = IF ReducesAcrossRanks(moe.size) THEN "all_reduce" ELSE "return",
                 !.trace[r] = Append(@, "moe"),
                 !.out[r] = {r}]
    /\ UNCHANGED MoERest

\* torch.distributed.all_reduce(out, group=self.process_group): the call is made
AllReduceEnter(r) ==
    /\ moe.pc[r] = "all_reduce"
    /\ moe' = [moe EXCEPT !.pc[r] = "in_all_reduce",
                          !.entered[r] = @ + 1,
                          !.trace[r] = Append(@, "all_reduce")]
    /\ UNCHANGED MoERest

\* ... and returns, with the sum over the group in place, once all ranks joined
AllReduceReturn(r) ==
    /\ moe.pc[r] = "in_all_reduce"
    /\ \A q \in Ranks : moe.entered[q] >= moe.entered[r]
    /\ moe' = [moe EXCEPT !.pc[r] = "return", !.out[r] = Ranks]
    /\ UNCHANGED MoERest

\* return out.view(*x.shape); the caller may run the layer again
MoEReturn(r) ==
    /\ moe.pc[r] = "return"
    /\ moe' = [moe EXCEPT
                 !.pc[r] = IF moe.call[r] < MaxForwards THEN "gate" ELSE "done",
                 !.call[r] = IF moe.call[r] < MaxForwards THEN @ + 1 ELSE @,
                 !.trace[r] = Append(@, "return"),
                 !.returned[r] = Append(@, moe.out[r])]
    /\ UNCHANGED MoERest

RankStep(r) ==
    Gate(r) \/ Experts(r) \/ AllReduceEnter(r) \/ AllReduceReturn(r) \/ MoEReturn(r)

MoENext == \E r \in Ranks : RankStep(r)

SpecMoE == MoEInit /\ [][MoENext]_vars

\* every rank is a process of its own and keeps running
FairSpecMoE == SpecMoE /\ \A r \in 1..MaxRanks : WF_vars(moe.size >= r /\ RankStep(r))

(***************************************************************************)
(* Properties of Phi3MoE.forward.                                          *)
(***************************************************************************)
MoEReturned(r) == moe.pc[r] \in {"gate", "done"} /\ Len(moe.returned[r]) > 0
MoEAllDone == \A r \in Ranks : moe.pc[r] = "done"

MoECallShape ==
    \A r \in Ranks :
        /\ MoEReturned(r) =>
            /\ moe.size > 1 => moe.trace[r] = <<"gate", "moe", "all_reduce", "return">>
            /\ moe.size = 1 => moe.trace[r] = <<"gate", "moe", "return">>
        /\ \A n \in 1..Len(moe.returned[r]) : moe.returned[r][n] = Ranks
        /\ moe.entered[r] = IF moe.size = 1 THEN 0
                            ELSE Len(moe.returned[r])
                                 + (IF moe.pc[r] \in {"in_all_reduce", "return"} THEN 1 ELSE 0)

\* C13: Phi3MoE.forward makes exactly one all-reduce, after the local expert
\* combination and before returning, when the process group has more than one
\* rank and none when it has one; every rank makes the same collectives in the
\* same order, so no rank waits forever at one: every call returns on every rank.
C13_OneAllReduce == []MoECallShape /\ <>MoEAllDone

C13_Witness ==
    /\ moe.size = 3 /\ MoEAllDone
    /\ \A r \in Ranks :
        /\ moe.entered[r] = MaxForwards
        /\ moe.trace[r] = <<"gate", "moe", "all_reduce", "return">>
        /\ moe.returned[r] = [n \in 1..MaxForwards |-> {1, 2, 3}]

(***************************************************************************)
(* get_model (models/__init__.py), one step per statement group.           *)
(* Arguments, configuration entries and module globals are drawn where the  *)
(* code first reads them.  Optional integers are <<>> (None) or <<n>>.      *)
(* The dispatch covers the branches of deepseek_v2, mamba, ssm, bloom,      *)
(* gpt2, phimoe, llama and mistral, and the AutoModel tail that every other *)
(* type reaches.  The entry value of the speculation global and the head    *)
(* count of the speculator are kept up to `speculate = get_speculate()`,    *)
(* which is their last use.                                                 *)
(***************************************************************************)
MaxWindow == 2
MaxSpeculate == 2

ModelTypes ==
    {"deepseek_v2", "mamba", "ssm", "bloom", "gpt2", "phimoe", "llama", "mistral", "other"}
OptionalInts(lo, hi) == {<<>>} \cup {<<n>> : n \in lo..hi}

\* an auto-selection that knows gptq and awq only
AutoQuantizeWithoutExl2(quantize, method) ==
    IF method = "None" \/ quantize # "None" THEN quantize
    ELSE IF method = "compressed-tensors" THEN "compressed-tensors"
    ELSE IF method \in {"gptq", "awq"} THEN method
    ELSE IF method \in {"fbgemm_fp8", "fp8"} THEN "fp8"
    ELSE quantize

\* quantize after the auto-selection from quantization_config["quant_method"]
AutoQuantize(quantize, method) ==
    IF method = "None" \/ quantize # "None" THEN quantize
    ELSE IF method = "compressed-tensors" THEN "compressed-tensors"
    ELSE IF method \in {"gptq", "awq", "exl2"} THEN method
    ELSE IF method \in {"fbgemm_fp8", "fp8"} THEN "fp8"
    ELSE quantize

\* config_dict.get("sliding_window") if ... is not None else -1
sliding_window_or_default(configured) == IF configured = <<>> THEN -1 ELSE configured[1]

\* sliding_window is not None and sliding_window != -1
use_sliding_window(sliding_window) == sliding_window # -1

\* mutant: a window one token short is let through
needs_sliding_window_off_by_one(max_input_tokens, sliding_window) ==
    max_input_tokens # <<>> /\ max_input_tokens[1] > sliding_window + 1

\* max_input_tokens is not None and max_input_tokens > sliding_window
needs_sliding_window(max_input_tokens, sliding_window) ==
    max_input_tokens # <<>> /\ max_input_tokens[1] > sliding_window

\* the `if FLASH_ATTENTION / elif FLASH_TRANSFORMERS_BACKEND / elif sharded / else` ladder
FlashLadder(g, transformers_backend, model) ==
    IF g.FLASH_ATTENTION THEN [return |-> "FlashCausalLM"]
    ELSE IF transformers_backend THEN [return |-> "TransformersFlashCausalLM.fallback"]
    ELSE IF g.sharded THEN [raise |-> "NotImplementedError"]
    ELSE [return |-> "CausalLM.fallback"]

\* elif model_type == GPT2: the flash constructor runs inside try/except RuntimeError
Gpt2Ladder(g, flash_load_fails) ==
    IF g.FLASH_ATTENTION
    THEN IF flash_load_fails THEN [return |-> "CausalLM.fallback"]
         ELSE [return |-> "FlashCausalLM"]
    ELSE IF g.sharded THEN [raise |-> "NotImplementedError"]
    ELSE [return |-> "CausalLM.fallback"]

\* elif model_type == PHI_MOE: if FLASH_ATTENTION ... else: return CausalLM.fallback(...)
PhiMoeLadder(g) ==
    IF g.FLASH_ATTENTION THEN [return |-> "FlashCausalLM"]
    ELSE [return |-> "CausalLM.fallback"]

\* what the dispatch on model_type returns or raises
Dispatch(g, transformers_backend, in_causal_lm_mapping, backend_compatible, in_seq2seq_mapping, flash_load_fails) ==
    IF g.model_type = "deepseek_v2" THEN FlashLadder(g, FALSE, "FlashDeepseekV2ForCausalLM")
    ELSE IF g.model_type = "mamba" THEN [return |-> "Mamba"]
    ELSE IF g.model_type = "ssm" THEN [raise |-> "RuntimeError"]
    ELSE IF g.model_type = "bloom" THEN [return |-> "CausalLM"]
    ELSE IF g.model_type = "gpt2" THEN Gpt2Ladder(g, flash_load_fails)
    ELSE IF g.model_type = "phimoe" THEN PhiMoeLadder(g)
    ELSE IF g.model_type = "llama"
        THEN FlashLadder(g, transformers_backend, "FlashLlamaForCausalLM")
    ELSE IF g.model_type = "mistral"
        THEN FlashLadder(g, transformers_backend, "FlashMistralForCausalLM")
    ELSE IF g.quantize \in {"gptq", "awq", "exl2"} THEN [raise |-> "NotImplementedError"]
    ELSE IF in_causal_lm_mapping
        THEN IF transformers_backend /\ backend_compatible
             THEN [return |-> "TransformersFlashCausalLM.fallback"]
             ELSE IF g.sharded THEN [raise |-> "NotImplementedError"]
             ELSE [return |-> "CausalLM.fallback"]
    ELSE IF g.sharded THEN [raise |-> "NotImplementedError"]
    ELSE IF in_seq2seq_mapping THEN [return |-> "Seq2SeqLM.fallback"]
    ELSE [raise |-> "ValueError"]

GmInit ==
    /\ ctor = Idle /\ moe = Idle /\ lora = Idle /\ fwd = Idle /\ vis = Idle /\ lm = Idle
    /\ input_ids = <<>>
    /\ image_grid_thw = None
    /\ pos_pc = "idle"
    /\ position_ids = <<>>
    /\ cu_seqlen_prefill = None
    /\ slots = <<>>
    /\ query = <<>>
    /\ kv = <<>>
    /\ attn_output = <<>>
    /\ events = <<>>
    /\ attn_pc = 0
    /\ calls = 0
    /\ kv_cache = <<>>
    /\ \E before \in 0..MaxSpeculate :
        gm = [pc |-> "quantization",
              quantize |-> "None", dtype |-> "None", kv_cache_dtype |-> "None",
              speculate |-> <<>>, SPECULATE |-> before, method |-> "None",
              before |-> before, heads |-> 0,
              model_type |-> "None", sharded |-> FALSE,
              sliding_window |-> <<>>, max_input_tokens |-> <<>>,
              FLASH_ATTENTION |-> TRUE, SUPPORTS_WINDOWING |-> TRUE,
              constructed |-> <<>>, raised |-> "none"]

GmRest == <<pos_vars, attn_vars, ctor, moe, lora, fwd, vis, lm>>
GmRaise(g, error) == [g EXCEPT !.pc = "raised", !.raised = error]

\* quantization_config = ...; if quantization_config is not None and quantize is None: ...
GmQuantization ==
    /\ gm.pc = "quantization"
    /\ \E quantize \in {"None", "exl2", "gptq"},
          method \in {"None", "exl2", "fp8", "compressed-tensors", "unknown"} :
        gm' = [gm EXCEPT !.pc = "dtype", !.quantize = AutoQuantize(quantize, method)]
    /\ UNCHANGED GmRest

\* if dtype is None: ... elif "float16" ... elif "bfloat16" ... else: raise RuntimeError
GmDtype ==
    /\ gm.pc = "dtype"
    /\ \E dtype \in {"None", "float16", "bfloat16", "float32"} :
        \/ /\ dtype = "None"
           /\ gm.quantize \in {"awq", "exl2", "gptq", "marlin"}
           /\ \E resolved \in {"float16", "bfloat16"} :
                gm' = [gm EXCEPT !.pc = "compressed_tensors", !.dtype = resolved]
        \/ /\ dtype = "None"
           /\ gm.quantize \notin {"awq", "exl2", "gptq", "marlin"}
           /\ gm' = [gm EXCEPT !.pc = "compressed_tensors"]
        \/ /\ dtype \in {"float16", "bfloat16"}
           /\ gm' = [gm EXCEPT !.pc = "compressed_tensors", !.dtype = dtype]
        \/ /\ dtype \notin {"None", "float16", "bfloat16"}
           /\ gm' = GmRaise(gm, "RuntimeError")
    /\ UNCHANGED GmRest

\* if quantize == "compressed-tensors": QuantizationConfig.model_validate(...)
GmCompressedTensors ==
    /\ gm.pc = "compressed_tensors"
    /\ \/ gm' = [gm EXCEPT !.pc = "kv_cache_dtype"]
       \/ /\ gm.quantize = "compressed-tensors"
          /\ gm' = GmRaise(gm, "ValueError")
    /\ UNCHANGED GmRest

\* if kv_cache_dtype is None: ... elif "fp8_e4m3fn" ... elif "fp8_e5m2" ... else: raise
GmKvCacheDtype ==
    /\ gm.pc = "kv_cache_dtype"
    /\ \E kv_cache_dtype \in {"None", "fp8_e4m3fn", "fp8_e5m2", "int8"} :
        \/ /\ kv_cache_dtype = "None"
           /\ \/ gm' = [gm EXCEPT !.pc = "speculate", !.kv_cache_dtype = gm.dtype]
              \/ /\ gm.quantize = "compressed-tensors"
                 /\ gm' = [gm EXCEPT !.pc = "speculate", !.kv_cache_dtype = "float8_e4m3fn"]
        \/ /\ kv_cache_dtype = "fp8_e4m3fn"
           /\ gm' = [gm EXCEPT !.pc = "speculate", !.kv_cache_dtype = "float8_e4m3fn"]
        \/ /\ kv_cache_dtype = "fp8_e5m2"
           /\ gm' = [gm EXCEPT !.pc = "speculate", !.kv_cache_dtype = "float8_e5m2"]
        \/ /\ kv_cache_dtype \notin {"None", "fp8_e4m3fn", "fp8_e5m2"}
           /\ gm' = GmRaise(gm, "RuntimeError")
    /\ UNCHANGED GmRest

\* if speculate is not None: set_speculate(speculate) else: set_speculate(0)
GmSetSpeculate ==
    /\ gm.pc = "speculate"
    /\ \E speculate \in OptionalInts(0, MaxSpeculate) :
        gm' = [gm EXCEPT !.pc = "speculator",
                         !.speculate = speculate,
                         !.SPECULATE = IF speculate # <<>> THEN speculate[1] ELSE 0]
    /\ UNCHANGED GmRest

\* if "medusa_num_heads" in config_dict: ... elif model_type == "mlp_speculator": ...
\* else: method = "n-gram"; the base model's configuration replaces config_dict
GmSpeculator ==
    /\ gm.pc = "speculator"
    /\ \/ \E method \in {"medusa", "mlp_speculator"}, heads \in 1..MaxSpeculate :
            IF gm.speculate # <<>> /\ gm.speculate[1] > heads
            THEN gm' = GmRaise([gm EXCEPT !.method = method, !.heads = heads],
                               "RuntimeError")
            ELSE gm' = [gm EXCEPT
                          !.pc = "model_type", !.method = method, !.heads = heads,
                          !.SPECULATE = IF gm.speculate # <<>> THEN gm.speculate[1]
                                        ELSE heads]
       \/ gm' = [gm EXCEPT !.pc = "model_type", !.method = "n-gram"]
    /\ UNCHANGED GmRest

\* speculate = get_speculate(); if model_type is None: mamba if "ssm_cfg" else raise
GmModelType ==
    /\ gm.pc = "model_type"
    /\ \/ \E model_type \in ModelTypes :
            gm' = [gm EXCEPT !.pc = "exl2", !.model_type = model_type,
                             !.speculate = <<gm.SPECULATE>>,
                             !.before = 0, !.heads = 0]
       \/ gm' = [gm EXCEPT !.pc = "exl2", !.model_type = "mamba",
                           !.speculate = <<gm.SPECULATE>>,
                           !.before = 0, !.heads = 0]
       \/ gm' = GmRaise([gm EXCEPT !.speculate = <<gm.SPECULATE>>,
                                   !.before = 0, !.heads = 0], "RuntimeError")
    /\ UNCHANGED GmRest

\* if quantize == "exl2" and sharded: raise RuntimeError
GmExl2Sharded ==
    /\ gm.pc = "exl2"
    /\ \E sharded \in BOOLEAN :
        gm' = IF gm.quantize = "exl2" /\ sharded
              THEN GmRaise([gm EXCEPT !.sharded = sharded], "RuntimeError")
              ELSE [gm EXCEPT !.pc = "sliding_window", !.sharded = sharded]
    /\ UNCHANGED GmRest

\* sliding_window = ...; use_sliding_window = ...; needs_sliding_window = ...
\* if use_sliding_window and needs_sliding_window and not SUPPORTS_WINDOWING: raise
GmSlidingWindow ==
    /\ gm.pc = "sliding_window"
    /\ \E configured \in OptionalInts(-1, MaxWindow),
          max_input_tokens \in OptionalInts(1, MaxWindow + 1),
          flash \in BOOLEAN, windowing \in BOOLEAN :
        /\ windowing => flash
        /\ LET sliding_window == sliding_window_or_default(configured)
               g == [gm EXCEPT !.sliding_window = configured,
                               !.max_input_tokens = max_input_tokens,
                               !.FLASH_ATTENTION = flash,
                               !.SUPPORTS_WINDOWING = windowing]
           IN gm' = IF /\ use_sliding_window(sliding_window)
                       /\ needs_sliding_window(max_input_tokens, sliding_window)
                       /\ ~windowing
                    THEN GmRaise(g, "ValueError")
                    ELSE [g EXCEPT !.pc = "dispatch"]
    /\ UNCHANGED GmRest

\* if model_type == DEEPSEEK_V2: ... raise ValueError(f"Unsupported model type")
GmDispatch ==
    /\ gm.pc = "dispatch"
    /\ \E transformers_backend \in BOOLEAN, in_causal_lm_mapping \in BOOLEAN,
          backend_compatible \in BOOLEAN, in_seq2seq_mapping \in BOOLEAN,
          flash_load_fails \in BOOLEAN :
        LET d == Dispatch(gm, transformers_backend, in_causal_lm_mapping,
                          backend_compatible, in_seq2seq_mapping, flash_load_fails)
        IN gm' = IF "raise" \in DOMAIN d
                 THEN GmRaise(gm, d.raise)
                 ELSE [gm EXCEPT !.pc = "returned", !.constructed = <<d.return>>]
    /\ UNCHANGED GmRest

GmNext ==
    \/ GmQuantization \/ GmDtype \/ GmCompressedTensors \/ GmKvCacheDtype
    \/ GmSetSpeculate \/ GmSpeculator \/ GmModelType \/ GmExl2Sharded
    \/ GmSlidingWindow \/ GmDispatch

SpecGetModel == GmInit /\ [][GmNext]_vars

(***************************************************************************)
(* Properties of get_model.                                                *)
(***************************************************************************)
\* the model's configuration sets a window (None and -1 both mean no window)
\* and the request admits more input tokens than the window
WindowNeeded ==
    /\ gm.sliding_window \notin {<<>>, <<-1>>}
    /\ gm.max_input_tokens # <<>>
    /\ gm.max_input_tokens[1] > gm.sliding_window[1]

\* C14: get_model rejects, by raising before any model object is constructed,
\* every request, whatever the model type, whose model needs sliding-window
\* attention (sliding_window set, and max_input_tokens greater than it) on a
\* backend without windowing support; the model selection is never reached.
C14_WindowRejected ==
    /\ gm.constructed # <<>> => gm.pc = "returned"
    /\ (WindowNeeded /\ ~gm.SUPPORTS_WINDOWING) =>
        /\ gm.pc = "raised" /\ gm.raised = "ValueError"
        /\ gm.constructed = <<>>

C14_Witness ==
    /\ gm.pc = "raised" /\ gm.raised = "ValueError" /\ gm.constructed = <<>>
    /\ gm.model_type = "mistral" /\ gm.FLASH_ATTENTION /\ ~gm.SUPPORTS_WINDOWING
    /\ gm.sliding_window = <<2>> /\ gm.max_input_tokens = <<3>>

(***************************************************************************)
(* get_model_with_lora_adapters (models/__init__.py): the loop over the    *)
(* adapters and, inside it, over the adapter layer types.  What             *)
(* LoraWeights.prepare_weights yields is decided outside this function;     *)
(* here only the first MaxTargetLayers layer types can yield weights.       *)
(***************************************************************************)
MaxAdapters == 2
MaxTargetLayers == 2

AdapterIds == {"a", "b"}

adapter_layers ==
    <<"q_proj", "k_proj", "v_proj", "o_proj", "gate_proj", "up_proj", "down_proj",
      "qkv_proj", "c_proj", "c_fc">>

RECURSIVE AdapterLists(_)
AdapterLists(n) ==
    IF n = 0 THEN {<<>>}
    ELSE AdapterLists(n - 1)
         \cup {Append(l, id) : l \in {x \in AdapterLists(n - 1) : Len(x) = n - 1},
                               id \in AdapterIds}

\* mutant: the None result is registered like any other
NeverNone(adapter_weights) == FALSE

\* if adapter_weights is None: continue
IsNone(adapter_weights) == adapter_weights = "None"

\* adapter_to_index[adapter.id] = adapter_index
SetItem(dict, key, value) == {e \in dict : e[1] # key} \cup {<<key, value>>}

LoraInit ==
    /\ ctor = Idle /\ moe = Idle /\ gm = Idle /\ fwd = Idle /\ vis = Idle /\ lm = Idle
    /\ input_ids = <<>>
    /\ image_grid_thw = None
    /\ pos_pc = "idle"
    /\ position_ids = <<>>
    /\ cu_seqlen_prefill = None
    /\ slots = <<>>
    /\ query = <<>>
    /\ kv = <<>>
    /\ attn_output = <<>>
    /\ events = <<>>
    /\ attn_pc = 0
    /\ calls = 0
    /\ kv_cache = <<>>
    /\ \E lora_adapters \in AdapterLists(MaxAdapters) :
        lora = [pc |-> "get_model",
                lora_adapters |-> lora_adapters,
                index |-> 0,
                layer |-> 1,
                adapter_to_index |-> {},
                layer_to_adapter_weights |-> {},
                tokenizers |-> {},
                loaded_adapters |-> {},
                prepared |-> {},
                raised |-> "none"]

LoraRest == <<pos_vars, attn_vars, ctor, moe, gm, fwd, vis, lm>>

\* model = get_model(...): returns a model or raises; if len(lora_adapters) > 0
LoraGetModel ==
    /\ lora.pc = "get_model"
    /\ \/ lora' = [lora EXCEPT
                     !.pc = IF Len(lora.lora_adapters) > 0 THEN "adapter" ELSE "returned"]
       \/ lora' = [lora EXCEPT !.pc = "raised", !.raised = "get_model"]
    /\ UNCHANGED LoraRest

\* for index, adapter in enumerate(lora_adapters): adapter_index = index + 1;
\* adapter_to_index[adapter.id] = adapter_index; load_and_merge_adapters(...)
LoraNextAdapter ==
    /\ lora.pc = "adapter"
    /\ lora' = IF lora.index < Len(lora.lora_adapters)
               THEN [lora EXCEPT
                       !.pc = "layer",
                       !.layer = 1,
                       !.adapter_to_index =
                           SetItem(@, lora.lora_adapters[lora.index + 1], lora.index + 1)]
               ELSE [lora EXCEPT !.pc = "returned"]
    /\ UNCHANGED LoraRest

\* for layer_name in adapter_layers: adapter_weights = LoraWeights.prepare_weights(...);
\* if adapter_weights is None: continue; model.layer_to_adapter_weights[...].add_adapter(...)
LoraLayer ==
    /\ lora.pc = "layer"
    /\ lora.layer <= Len(adapter_layers)
    /\ \E adapter_weights \in {"None", "weights"} :
        /\ adapter_weights = "weights" => lora.layer <= MaxTargetLayers
        /\ LET layer_name == adapter_layers[lora.layer]
               adapter_index == lora.index + 1
           IN lora' = [lora EXCEPT
                         !.layer = @ + 1,
                         !.prepared = @ \cup {<<layer_name, adapter_index, adapter_weights>>},
                         !.layer_to_adapter_weights =
                             IF IsNone(adapter_weights) THEN @
                             ELSE @ \cup {<<layer_name, adapter_index, adapter_weights>>}]
    /\ UNCHANGED LoraRest

\* if adapter_tokenizer is not None: model.tokenizers.add_tokenizer(...);
\* model.loaded_adapters.add(adapter_index)
LoraLoaded ==
    /\ lora.pc = "layer"
    /\ lora.layer > Len(adapter_layers)
    /\ \E has_tokenizer \in BOOLEAN :
        lora' = [lora EXCEPT
                   !.pc = "adapter",
                   !.index = @ + 1,
                   !.tokenizers = IF has_tokenizer THEN @ \cup {lora.index + 1} ELSE @,
                   !.loaded_adapters = @ \cup {lora.index + 1}]
    /\ UNCHANGED LoraRest

LoraNext == LoraGetModel \/ LoraNextAdapter \/ LoraLayer \/ LoraLoaded

SpecLora == LoraInit /\ [][LoraNext]_vars

(***************************************************************************)
(* Properties of get_model_with_lora_adapters.                             *)
(***************************************************************************)
LayerNames == {adapter_layers[i] : i \in 1..Len(adapter_layers)}
Registered(layer_name, adapter_index) ==
    \E e \in lora.layer_to_adapter_weights : e[1] = layer_name /\ e[2] = adapter_index
Prepared(layer_name, adapter_index, adapter_weights) ==
    <<layer_name, adapter_index, adapter_weights>> \in lora.prepared

\* C15: when weight preparation yields None for a layer type, nothing is
\* registered in layer_to_adapter_weights for that (layer type, adapter index)
\* pair, no default stands in for it, while the adapter's other layer types
\* are registered and the adapter index is still added to loaded_adapters.
C15_NoneIsSkipped ==
    /\ \A e \in lora.layer_to_adapter_weights : e[3] # "None"
    /\ \A layer_name \in LayerNames, adapter_index \in 1..Len(lora.lora_adapters) :
        /\ Prepared(layer_name, adapter_index, "None") =>
                ~Registered(layer_name, adapter_index)
        /\ Prepared(layer_name, adapter_index, "weights") =>
                Registered(layer_name, adapter_index)
    /\ \A adapter_index \in 1..lora.index : adapter_index \in lora.loaded_adapters
    /\ lora.pc = "returned" => lora.loaded_adapters = 1..Len(lora.lora_adapters)

\* the second adapter has weights for q_proj, none for k_proj
C15_Witness ==
    /\ lora.pc = "returned" /\ Len(lora.lora_adapters) = 2
    /\ Prepared("k_proj", 2, "None") /\ ~Registered("k_proj", 2)
    /\ Registered("q_proj", 2) /\ Prepared("q_proj", 2, "weights")
    /\ 2 \in lora.loaded_adapters

(***************************************************************************)
(* FlashLlamaModel.forward over self.layers, with FlashLlamaLayer.forward   *)
(* run statement by statement.  Tensors are terms <<name, layer, inputs>>:  *)
(* what a norm, the attention, the MLP or a scaling returns is left         *)
(* uninterpreted, only what flows into it is recorded.  kv_cache is the     *)
(* caller's list, one cache per configured layer; a cache cell holds the    *)
(* <<layer, token>> writes made to it.  The configuration has no            *)
(* cross_attention_layers (the getattr default).                            *)
(***************************************************************************)
MaxLayers == 3

T(name, i, inputs) == <<name, i, inputs>>
NoneT == T("None", 0, <<>>)
inputs_embeds == T("inputs_embeds", 0, <<>>)

\* self.layers as __init__ builds it: layer 0, layers 1..n-2, layer n-1
Layers(num_hidden_layers) ==
    <<0>> \o [k \in 1..(num_hidden_layers - 2) |-> k] \o <<num_hidden_layers - 1>>

\* mutant: every layer is handed the first cache
LayerArgsFirstCache(i) ==
    [cu_seqlen_prefill |-> cu_seqlen_prefill, cache |-> 0, slots |-> slots,
     seqlen |-> "seqlen", hpu_attention_meta |-> "hpu_attention_meta"]

\* mutant: the prefill boundaries reach the first layer only
LayerArgsDecodeAfterFirst(i) ==
    [cu_seqlen_prefill |-> IF i = 0 THEN cu_seqlen_prefill ELSE None, cache |-> i,
     slots |-> slots, seqlen |-> "seqlen", hpu_attention_meta |-> "hpu_attention_meta"]

\* layer(hidden_states, residual, cos, sin, cu_seqlen_prefill, kv_cache[i], slots,
\*       seqlen, adapter_data, cross_attention_states, hpu_attention_meta=...)
LayerArgs(i) ==
    [cu_seqlen_prefill |-> cu_seqlen_prefill, cache |-> i, slots |-> slots,
     seqlen |-> "seqlen", hpu_attention_meta |-> "hpu_attention_meta"]

\* mutant: the multiplier scales the attention output only
LayerStatementsScaleAttnOnly(residual_multiplier) ==
    <<"input_layernorm", "self_attn">>
    \o (IF residual_multiplier # <<>> THEN <<"attn_output *=">> ELSE <<>>)
    \o <<"post_attention_layernorm", "mlp">>

\* the statements of FlashLlamaLayer.forward, in order
LayerStatements(residual_multiplier) ==
    <<"input_layernorm", "self_attn">>
    \o (IF residual_multiplier # <<>> THEN <<"attn_output *=">> ELSE <<>>)
    \o <<"post_attention_layernorm", "mlp">>
    \o (IF residual_multiplier # <<>> THEN <<"mlp_output *=">> ELSE <<>>)

\* mutant: the flush loses the residual stream
mark_step_dropping_residual(f) ==
    [f EXCEPT !.marks = @ + 1, !.residual = NoneT,
              !.trace = Append(@, [op |-> "mark_step", i |-> f.i, cache |-> -1,
                                   slots |-> <<>>, cu_seqlen_prefill |-> None])]

\* htorch.core.mark_step(): runs what was queued, no tensor changes value
mark_step(f) ==
    [f EXCEPT !.marks = @ + 1,
              !.trace = Append(@, [op |-> "mark_step", i |-> f.i, cache |-> -1,
                                   slots |-> <<>>, cu_seqlen_prefill |-> None])]

\* a statement of layer f.i, as it shows in the trace
LayerEvent(f, op) ==
    [op |-> op, i |-> f.i, cache |-> -1, slots |-> <<>>,
     cu_seqlen_prefill |-> f.layer_args.cu_seqlen_prefill]

\* the statements of FlashLlamaAttention.forward as run inside layer f.i
AttentionEvents(f) ==
    [k \in 1..Len(ForwardBody) |->
        IF ForwardBody[k] = "kv_cache.store"
        THEN [op |-> "kv_cache.store", i |-> f.i, cache |-> f.layer_args.cache,
              slots |-> f.layer_args.slots,
              cu_seqlen_prefill |-> f.layer_args.cu_seqlen_prefill]
        ELSE IF ForwardBody[k] = "attention_kernel"
        THEN LayerEvent(f, IF f.layer_args.cu_seqlen_prefill.none
                           THEN "paged_attention" ELSE "attention")
        ELSE LayerEvent(f, ForwardBody[k])]

\* kv_cache.store(key=..., value=..., slots=slots, kv_scales=...) on one cache
Store(cache, i, store_slots) ==
    [s \in DOMAIN cache |->
        cache[s] \o SelectSeq([t \in 1..Len(store_slots) |-> <<i, t>>],
                              LAMBDA w : store_slots[w[2]] = s)]

FwdInit ==
    /\ ctor = Idle /\ moe = Idle /\ gm = Idle /\ lora = Idle /\ vis = Idle /\ lm = Idle
    /\ input_ids = <<>>
    /\ image_grid_thw = None
    /\ pos_pc = "idle"
    /\ position_ids = <<>>
    /\ query = <<>>
    /\ kv = <<>>
    /\ attn_output = <<>>
    /\ events = <<>>
    /\ attn_pc = 0
    /\ calls = 0
    /\ \E n \in 1..MaxTokens, prefill \in BOOLEAN :
        /\ \E sl \in AscendingSeqs(1..NumSlots, n) : slots = sl
        /\ cu_seqlen_prefill = IF prefill THEN Some(<<0, n>>) ELSE None
    /\ \E num_hidden_layers \in 1..MaxLayers, lazy_mode \in BOOLEAN,
          residual_multiplier \in {<<>>, <<"residual_multiplier">>} :
        /\ kv_cache = [c \in 1..num_hidden_layers |-> [s \in 1..NumSlots |-> <<>>]]
        /\ fwd = [pc |-> "entry",
                  layers |-> Layers(num_hidden_layers),
                  lazy_mode |-> lazy_mode,
                  residual_multiplier |-> residual_multiplier,
                  i |-> 0, stmt |-> 0, marks |-> 0,
                  hidden_states |-> NoneT, residual |-> NoneT,
                  layer_args |-> LayerArgs(0),
                  layer_in |-> <<NoneT, NoneT>>,
                  normed_hidden_states |-> NoneT, res |-> NoneT, attn_output |-> NoneT,
                  normed_attn_res_output |-> NoneT, attn_res |-> NoneT,
                  mlp_output |-> NoneT,
                  trace |-> <<>>, raised |-> "none"]

FwdRest == <<pos_vars, ctor, moe, gm, lora, vis, lm, query, kv, attn_output, events, attn_pc, calls>>
FwdArgs == <<cu_seqlen_prefill, slots>>
AtLayerStatement(name) ==
    /\ fwd.pc = "in_layer"
    /\ fwd.stmt \in 1..Len(LayerStatements(fwd.residual_multiplier))
    /\ LayerStatements(fwd.residual_multiplier)[fwd.stmt] = name

\* hidden_states = inputs_embeds; cos, sin = ...; residual = None; lazy_mode = ...
FwdEntry ==
    /\ fwd.pc = "entry"
    /\ fwd' = [fwd EXCEPT !.pc = "mark_step", !.hidden_states = inputs_embeds,
                          !.residual = NoneT]
    /\ UNCHANGED <<FwdRest, FwdArgs, kv_cache>>

\* if lazy_mode: htorch.core.mark_step()   (before the loop)
FirstMarkStep ==
    /\ fwd.pc = "mark_step"
    /\ fwd' = [(IF fwd.lazy_mode THEN mark_step(fwd) ELSE fwd) EXCEPT !.pc = "layer"]
    /\ UNCHANGED <<FwdRest, FwdArgs, kv_cache>>

\* for i, layer in enumerate(self.layers): layer(..., kv_cache[i], ...)
LayerCall ==
    /\ fwd.pc = "layer"
    /\ fwd.i < Len(fwd.layers)
    /\ fwd' = IF fwd.i < Len(kv_cache)
              THEN [fwd EXCEPT !.pc = "in_layer", !.stmt = 1,
                               !.layer_args = LayerArgs(fwd.i),
                               !.layer_in = <<fwd.hidden_states, fwd.residual>>,
                               !.trace = Append(@, [LayerEvent(fwd, "layer") EXCEPT
                                   !.cache = LayerArgs(fwd.i).cache,
                                   !.slots = LayerArgs(fwd.i).slots,
                                   !.cu_seqlen_prefill =
                                       LayerArgs(fwd.i).cu_seqlen_prefill])]
              ELSE [fwd EXCEPT !.pc = "raised", !.raised = "IndexError"]
    /\ UNCHANGED <<FwdRest, FwdArgs, kv_cache>>

\* normed_hidden_states, res = self.input_layernorm(hidden_states, residual)
InputLayernorm ==
    /\ AtLayerStatement("input_layernorm")
    /\ LET in == <<fwd.layer_in[1], fwd.layer_in[2]>>
       IN fwd' = [fwd EXCEPT
                    !.stmt = @ + 1,
                    !.normed_hidden_states = T("input_layernorm.normed", fwd.i, in),
                    !.res = T("input_layernorm.res", fwd.i, in),
                    !.trace = Append(@, LayerEvent(fwd, "input_layernorm"))]
    /\ UNCHANGED <<FwdRest, FwdArgs, kv_cache>>

\* attn_output = self.self_attn(normed_hidden_states, cos, sin, cu_seqlen_prefill,
\*                              kv_cache, slots, seqlen, adapter_data, ...)
SelfAttn ==
    /\ AtLayerStatement("self_attn")
    /\ fwd' = [fwd EXCEPT
                 !.stmt = @ + 1,
                 !.attn_output = T("self_attn", fwd.i, <<fwd.normed_hidden_states>>),
                 !.trace = Append(@, LayerEvent(fwd, "self_attn")) \o AttentionEvents(fwd)]
    /\ kv_cache' = [kv_cache EXCEPT ![fwd.layer_args.cache + 1] =
                        Store(@, fwd.i, fwd.layer_args.slots)]
    /\ UNCHANGED <<FwdRest, FwdArgs>>

\* if self.residual_multiplier is not None: attn_output *= self.residual_multiplier
AttnScale ==
    /\ AtLayerStatement("attn_output *=")
    /\ fwd' = [fwd EXCEPT
                 !.stmt = @ + 1,
                 !.attn_output = T("mul", fwd.i, <<fwd.attn_output>>),
                 !.trace = Append(@, LayerEvent(fwd, "attn_output *="))]
    /\ UNCHANGED <<FwdRest, FwdArgs, kv_cache>>

\* normed_attn_res_output, attn_res = self.post_attention_layernorm(attn_output, res)
PostAttentionLayernorm ==
    /\ AtLayerStatement("post_attention_layernorm")
    /\ LET in == <<fwd.attn_output, fwd.res>>
       IN fwd' = [fwd EXCEPT
                    !.stmt = @ + 1,
                    !.normed_attn_res_output =
                        T("post_attention_layernorm.normed", fwd.i, in),
                    !.attn_res = T("post_attention_layernorm.res", fwd.i, in),
                    !.trace = Append(@, LayerEvent(fwd, "post_attention_layernorm"))]
    /\ UNCHANGED <<FwdRest, FwdArgs, kv_cache>>

\* mlp_output = self.mlp(normed_attn_res_output, adapter_data)
Mlp ==
    /\ AtLayerStatement("mlp")
    /\ fwd' = [fwd EXCEPT
                 !.stmt = @ + 1,
                 !.mlp_output = T("mlp", fwd.i, <<fwd.normed_attn_res_output>>),
                 !.trace = Append(@, LayerEvent(fwd, "mlp"))]
    /\ UNCHANGED <<FwdRest, FwdArgs, kv_cache>>

\* if self.residual_multiplier is not None: mlp_output *= self.residual_multiplier
MlpScale ==
    /\ AtLayerStatement("mlp_output *=")
    /\ fwd' = [fwd EXCEPT
                 !.stmt = @ + 1,
                 !.mlp_output = T("mul", fwd.i, <<fwd.mlp_output>>),
                 !.trace = Append(@, LayerEvent(fwd, "mlp_output *="))]
    /\ UNCHANGED <<FwdRest, FwdArgs, kv_cache>>

\* return mlp_output, attn_res; hidden_states, residual = layer(...)
LayerReturn ==
    /\ fwd.pc = "in_layer"
    /\ fwd.stmt > Len(LayerStatements(fwd.residual_multiplier))
    /\ fwd' = [fwd EXCEPT !.pc = "layer_mark_step", !.stmt = 0,
                          !.hidden_states = fwd.mlp_output,
                          !.residual = fwd.attn_res,
                          !.trace = Append(@, LayerEvent(fwd, "return"))]
    /\ UNCHANGED <<FwdRest, FwdArgs, kv_cache>>

\* if lazy_mode: htorch.core.mark_step()   (end of the loop body)
LayerMarkStep ==
    /\ fwd.pc = "layer_mark_step"
    /\ fwd' = [(IF fwd.lazy_mode THEN mark_step(fwd) ELSE fwd) EXCEPT
                 !.pc = "layer", !.i = fwd.i + 1]
    /\ UNCHANGED <<FwdRest, FwdArgs, kv_cache>>

\* hidden_states, _ = self.norm(hidden_states, residual); return hidden_states
FinalNorm ==
    /\ fwd.pc = "layer"
    /\ fwd.i = Len(fwd.layers)
    /\ fwd' = [fwd EXCEPT
                 !.pc = "returned",
                 !.hidden_states = T("norm.normed", fwd.i, <<fwd.hidden_states, fwd.residual>>)]
    /\ UNCHANGED <<FwdRest, FwdArgs, kv_cache>>

FwdNext ==
    \/ FwdEntry \/ FirstMarkStep \/ LayerCall \/ InputLayernorm \/ SelfAttn \/ AttnScale
    \/ PostAttentionLayernorm \/ Mlp \/ MlpScale \/ LayerReturn \/ LayerMarkStep
    \/ FinalNorm

SpecModel == FwdInit /\ [][FwdNext]_vars

(***************************************************************************)
(* Properties of FlashLlamaModel.forward and FlashLlamaLayer.forward.      *)
(***************************************************************************)
NumLayers == Len(fwd.layers)
FwdReturned == fwd.pc = "returned"
TraceAt(op, i) == {k \in 1..Len(fwd.trace) : fwd.trace[k].op = op /\ fwd.trace[k].i = i}
TokensAt(s) == SelectSeq([t \in 1..Len(slots) |-> t], LAMBDA t : slots[t] = s)

\* the cells of cache c hold one write per token of the call, made by layer c,
\* once that layer's attention has run, and nothing else
CacheAsStored(c) ==
    \A s \in 1..NumSlots :
        kv_cache[c + 1][s] =
            IF TraceAt("self_attn", c) # {}
            THEN [k \in 1..Len(TokensAt(s)) |-> <<c, TokensAt(s)[k]>>]
            ELSE <<>>

\* C17: during one FlashLlamaModel.forward, layer i calls the cache store exactly
\* once, on kv_cache[i] only and with the caller's slots; no layer writes another
\* layer's cache and nothing but the store changes a cache, so every (layer, slot)
\* cell is written at most once per incoming token.
C17_StoreOwnCacheOnce ==
    /\ \A i \in 0..(NumLayers - 1) :
        /\ Cardinality(TraceAt("kv_cache.store", i)) =
               (IF TraceAt("self_attn", i) # {} THEN 1 ELSE 0)
        /\ \A k \in TraceAt("kv_cache.store", i) :
               fwd.trace[k].cache = i /\ fwd.trace[k].slots = slots
        /\ FwdReturned => TraceAt("self_attn", i) # {}
    /\ \A c \in 0..(Len(kv_cache) - 1) :
        /\ CacheAsStored(c)
        /\ \A s \in 1..NumSlots : Len(kv_cache[c + 1][s]) <= 1

\* three layers, two tokens: the last layer's cache holds the second token once
C17_Witness ==
    /\ FwdReturned /\ NumLayers = 3 /\ Len(slots) = 2
    /\ kv_cache[3][slots[2]] = <<<<2, 2>>>>
    /\ kv_cache[1][slots[1]] = <<<<0, 1>>>>

KernelOps == {"attention", "paged_attention"}
KernelsRun == {k \in 1..Len(fwd.trace) : fwd.trace[k].op \in KernelOps}

\* C18: within one FlashLlamaModel.forward the attention mode is fixed: every
\* layer receives the call's cu_seqlen_prefill (and its slots, seqlen and block
\* metadata), so all layers run prefill or all run decode.
C18_ModeFixed ==
    /\ \A k \in 1..Len(fwd.trace) :
        fwd.trace[k].op # "mark_step" =>
            fwd.trace[k].cu_seqlen_prefill = cu_seqlen_prefill
    /\ \A k \in 1..Len(fwd.trace) :
        fwd.trace[k].op = "layer" => fwd.trace[k].slots = slots
    /\ fwd.pc = "in_layer" =>
        /\ fwd.layer_args.seqlen = "seqlen"
        /\ fwd.layer_args.hpu_attention_meta = "hpu_attention_meta"
        /\ fwd.layer_args.slots = slots
        /\ fwd.layer_args.cu_seqlen_prefill = cu_seqlen_prefill
    /\ \A k \in KernelsRun :
        fwd.trace[k].op = (IF cu_seqlen_prefill.none THEN "paged_attention" ELSE "attention")
    /\ FwdReturned => \A i \in 0..(NumLayers - 1) :
        \E k \in KernelsRun : fwd.trace[k].i = i

\* a prefill call through three layers
C18_Witness ==
    /\ FwdReturned /\ NumLayers = 3 /\ ~cu_seqlen_prefill.none
    /\ \A i \in 0..2 : TraceAt("attention", i) # {} /\ TraceAt("paged_attention", i) = {}

\* what a layer returns for (hidden_states, residual), written out
ExpectedLayer(h, r, i, scaled) ==
    LET normed == T("input_layernorm.normed", i, <<h, r>>)
        res == T("input_layernorm.res", i, <<h, r>>)
        attn == T("self_attn", i, <<normed>>)
        attn_scaled == IF scaled THEN T("mul", i, <<attn>>) ELSE attn
        normed_2 == T("post_attention_layernorm.normed", i, <<attn_scaled, res>>)
        attn_res == T("post_attention_layernorm.res", i, <<attn_scaled, res>>)
        mlp == T("mlp", i, <<normed_2>>)
    IN <<IF scaled THEN T("mul", i, <<mlp>>) ELSE mlp, attn_res>>

\* the statements of one layer call as they show in the trace
ExpectedLayerOps(scaled, prefill) ==
    <<"layer", "input_layernorm", "self_attn", "rotary_emb", "kv_cache.store",
      IF prefill THEN "attention" ELSE "paged_attention", "o_proj">>
    \o (IF scaled THEN <<"attn_output *=">> ELSE <<>>)
    \o <<"post_attention_layernorm", "mlp">>
    \o (IF scaled THEN <<"mlp_output *=">> ELSE <<>>)
    \o <<"return">>

Scaled == fwd.residual_multiplier # <<>>
LayerTrace(i) == SelectSeq(fwd.trace, LAMBDA e : e.i = i /\ e.op # "mark_step")
LayerJustReturned == fwd.pc = "layer_mark_step"

\* C19: FlashLlamaLayer.forward runs input norm(hidden, residual), attention on
\* the normed value, optional scaling, post-attention norm(attention output,
\* residual of the first norm), MLP on the second normed value, optional scaling,
\* and returns (MLP output, residual of the post-attention norm); the multiplier
\* scales both outputs when configured and neither when absent.
C19_LayerPipeline ==
    /\ LayerJustReturned =>
        /\ <<fwd.hidden_states, fwd.residual>> =
               ExpectedLayer(fwd.layer_in[1], fwd.layer_in[2], fwd.i, Scaled)
        /\ [k \in 1..Len(LayerTrace(fwd.i)) |-> LayerTrace(fwd.i)[k].op] =
               ExpectedLayerOps(Scaled, ~cu_seqlen_prefill.none)
    /\ \A i \in 0..(NumLayers - 1) :
        Cardinality(TraceAt("attn_output *=", i)) = Cardinality(TraceAt("mlp_output *=", i))
        \/ (fwd.pc = "in_layer" /\ fwd.i = i)

\* the second layer of a model with a residual multiplier has just returned
C19_Witness ==
    /\ LayerJustReturned /\ fwd.i = 1 /\ Scaled
    /\ fwd.hidden_states[1] = "mul" /\ fwd.residual[1] = "post_attention_layernorm.res"
    /\ TraceAt("attn_output *=", 1) # {} /\ TraceAt("mlp_output *=", 1) # {}

RECURSIVE ExpectedStream(_)
\* (hidden_states, residual) after the first k layers
ExpectedStream(k) ==
    IF k = 0 THEN <<inputs_embeds, NoneT>>
    ELSE ExpectedLayer(ExpectedStream(k - 1)[1], ExpectedStream(k - 1)[2], k - 1, Scaled)

LazyFreeTrace == SelectSeq(fwd.trace, LAMBDA e : e.op # "mark_step")
MarkSteps == {k \in 1..Len(fwd.trace) : fwd.trace[k].op = "mark_step"}
LayerReturns == {k \in 1..Len(fwd.trace) : fwd.trace[k].op = "return"}
PerLayer == Len(ExpectedLayerOps(Scaled, ~cu_seqlen_prefill.none))

\* C20: lazy-mode flushes change nothing but scheduling: with lazy mode on there
\* is one flush before the first layer and one after each layer (L + 1 for L
\* layers), with lazy mode off none, and the layer invocations, their arguments,
\* the cache writes and the returned hidden states do not depend on the mode.
C20_MarkStepOnlySchedules ==
    /\ fwd.marks = Cardinality(MarkSteps)
    /\ ~fwd.lazy_mode => fwd.marks = 0
    /\ fwd.lazy_mode =>
        /\ fwd.pc \notin {"entry", "mark_step"} => fwd.trace[1].op = "mark_step"
        /\ \A k \in MarkSteps : k = 1 \/ fwd.trace[k - 1].op = "return"
        /\ \A k \in LayerReturns :
            IF k = Len(fwd.trace) THEN LayerJustReturned
            ELSE fwd.trace[k + 1].op = "mark_step"
        /\ FwdReturned => fwd.marks = NumLayers + 1
    /\ FwdReturned =>
        /\ fwd.hidden_states =
               T("norm.normed", NumLayers, <<ExpectedStream(NumLayers)[1],
                                             ExpectedStream(NumLayers)[2]>>)
        /\ Len(LazyFreeTrace) = NumLayers * PerLayer
        /\ \A k \in 1..Len(LazyFreeTrace) :
            /\ LazyFreeTrace[k].op =
                   ExpectedLayerOps(Scaled, ~cu_seqlen_prefill.none)[((k - 1) % PerLayer) + 1]
            /\ LazyFreeTrace[k].i = (k - 1) \div PerLayer
            /\ LazyFreeTrace[k].cu_seqlen_prefill = cu_seqlen_prefill
            /\ LazyFreeTrace[k].op \in {"layer", "kv_cache.store"} =>
                /\ LazyFreeTrace[k].cache = LazyFreeTrace[k].i
                /\ LazyFreeTrace[k].slots = slots
        /\ \A c \in 0..(Len(kv_cache) - 1) : CacheAsStored(c)

\* a lazy-mode call through three layers: four flushes
C20_Witness ==
    /\ FwdReturned /\ fwd.lazy_mode /\ NumLayers = 3 /\ fwd.marks = 4
    /\ fwd.trace[Len(fwd.trace)].op = "mark_step"

(***************************************************************************)
(* Claims about get_model: exl2 with sharding, the sharded dispatch and    *)
(* the speculation setting.                                                *)
(***************************************************************************)
Quantizations == {"None", "exl2", "gptq"}
QuantMethods == {"None", "exl2", "fp8", "compressed-tensors", "unknown"}

\* the effective quantization is exl2 for these arguments and configurations
EffectiveExl2(quantize, method) ==
    quantize = "exl2" \/ (quantize = "None" /\ method = "exl2")

\* C21: whenever the effective quantization is exl2, requested by the caller or
\* auto-selected from the quant_method of the model configuration, and sharded
\* is true, get_model raises, whatever the model type, and no model object has
\* been constructed.
C21_Exl2ShardedRaises ==
    /\ \A quantize \in Quantizations, method \in QuantMethods :
         EffectiveExl2(quantize, method) => AutoQuantize(quantize, method) = "exl2"
    /\ (gm.pc # "idle" /\ gm.quantize = "exl2" /\ gm.sharded)
         => (gm.pc = "raised" /\ gm.raised = "RuntimeError" /\ gm.constructed = <<>>)

C21_Witness ==
    /\ gm.pc = "raised" /\ gm.raised = "RuntimeError"
    /\ gm.quantize = "exl2" /\ gm.sharded
    /\ gm.model_type = "llama" /\ gm.constructed = <<>>

\* C26: for every model type and every combination of the backend flags,
\* get_model called with sharded = true never returns CausalLM.fallback.
C26_ShardedNeverFallback ==
    (gm.pc = "returned" /\ gm.sharded) => gm.constructed # <<"CausalLM.fallback">>

IsSpeculator == gm.pc # "idle" /\ gm.method \in {"medusa", "mlp_speculator"}
Requested == gm.speculate

\* C30: for a medusa or mlp_speculator model with H heads, a requested
\* speculate above H raises RuntimeError and leaves the global speculate
\* setting as it was before the call; otherwise the global after the
\* speculation step is the requested value when one was given and H when none
\* was; with no speculator it is the requested value, or 0 when none was given.
C30_SpeculateSetting ==
    /\ (/\ IsSpeculator /\ gm.pc = "raised" /\ gm.heads > 0
        /\ Requested # <<>> /\ Requested[1] > gm.heads)
         => (gm.raised = "RuntimeError" /\ gm.SPECULATE = gm.before)
    /\ (IsSpeculator /\ gm.pc = "model_type")
         => gm.SPECULATE = (IF Requested # <<>> THEN Requested[1] ELSE gm.heads)
    /\ (gm.pc = "model_type" /\ gm.method = "n-gram")
         => gm.SPECULATE = (IF Requested # <<>> THEN Requested[1] ELSE 0)

\* config.num_hidden_layers of the model under forward: one cache per layer
num_hidden_layers == Len(kv_cache)

\* C22: for every num_hidden_layers n >= 1 the constructor builds exactly n
\* decoder layers whose indices are 0..n-1 in ascending order, each once, so
\* that forward hands the layer of index i the cache kv_cache[i].
C22_LayersAscending ==
    fwd.pc # "idle" =>
        /\ fwd.layers = [k \in 1..num_hidden_layers |-> k - 1]
        /\ \A k \in 1..Len(fwd.trace) :
             fwd.trace[k].op = "layer" =>
                fwd.trace[k].cache = fwd.layers[fwd.trace[k].i + 1]
        /\ fwd.pc # "raised"

(***************************************************************************)
(* Qwen2VisionModel.forward (qwen2_vl.py), statement group by statement    *)
(* group, with Qwen2VLAttention.forward inside every block.  grid_thw is a *)
(* sequence of rows <<t, h, w>>; pixel_values holds one patch per cell of  *)
(* every frame.  Activations are not interpreted: the model keeps the      *)
(* integer tensors that index them (pos_ids, cu_seqlens, attention_mask).  *)
(* htorch.core.mark_step() changes no value and is left out.               *)
(***************************************************************************)
MaxImages == 2
MaxFrames == 2
GridSides == {1, 2, 4}
MergeSizes == {1, 2}
Depths == {1, 2}

Grids == {<<t, h, w>> : t \in 1..MaxFrames, h \in GridSides, w \in GridSides}

RECURSIVE GridLists(_)
GridLists(n) ==
    IF n = 0 THEN {<<>>}
    ELSE {Append(l, g) : l \in GridLists(n - 1), g \in Grids}

\* torch.arange(h).unsqueeze(1).expand(-1, w), row-major
ExpandRows(h, w) == [k \in 1..(h * w) |-> (k - 1) \div w]

\* torch.arange(w).unsqueeze(0).expand(h, -1), row-major
ExpandCols(h, w) == [k \in 1..(h * w) |-> (k - 1) % w]

\* .reshape(h // m, m, w // m, m) of h * w elements is possible
ReshapeFits(h, w, m) == (h \div m) * m * (w \div m) * m = h * w

\* the flattening of the reshaped tensor as it is, without the permute
FlattenWithoutPermute(flat, A, m, C) == flat

\* .reshape(A, m, C, m).permute(0, 2, 1, 3).flatten() of a row-major tensor
PermuteFlatten(flat, A, m, C) ==
    [k \in 1..(A * C * m * m) |->
        LET d == (k - 1) % m
            b == ((k - 1) \div m) % m
            c == ((k - 1) \div (m * m)) % C
            a == (k - 1) \div (m * m * C)
        IN flat[((a * m + b) * C + c) * m + d + 1]]

\* torch.stack([hpos_ids, wpos_ids], dim=-1).repeat(t, 1) for one row of grid_thw
grid_pos_ids(g, m) ==
    LET hpos_ids == PermuteFlatten(ExpandRows(g[2], g[3]), g[2] \div m, m, g[3] \div m)
        wpos_ids == PermuteFlatten(ExpandCols(g[2], g[3]), g[2] \div m, m, g[3] \div m)
    IN Repeat([k \in 1..Len(hpos_ids) |-> <<hpos_ids[k], wpos_ids[k]>>], g[1])

\* for t, h, w in grid_thw: pos_ids.append(...); torch.cat(pos_ids, dim=0)
RECURSIVE pos_ids(_, _)
pos_ids(grid_thw, m) ==
    IF grid_thw = <<>> THEN <<>>
    ELSE grid_pos_ids(Head(grid_thw), m) \o pos_ids(Tail(grid_thw), m)

\* torch.repeat_interleave(values, repeats) with one repeat count per value
RECURSIVE RepeatInterleaveBy(_, _)
RepeatInterleaveBy(values, repeats) ==
    IF values = <<>> THEN <<>>
    ELSE [i \in 1..Head(repeats) |-> Head(values)]
         \o RepeatInterleaveBy(Tail(values), Tail(repeats))

\* boundaries with one span per row of grid_thw
cu_seqlens_per_grid(grid_thw) ==
    <<0>> \o Cumsum([g \in 1..Len(grid_thw) |->
                        grid_thw[g][1] * grid_thw[g][2] * grid_thw[g][3]])

\* F.pad(repeat_interleave(grid_thw[:, 1] * grid_thw[:, 2], grid_thw[:, 0]).cumsum(0), (1, 0))
cu_seqlens(grid_thw) ==
    <<0>> \o Cumsum(RepeatInterleaveBy(
                [g \in 1..Len(grid_thw) |-> grid_thw[g][2] * grid_thw[g][3]],
                [g \in 1..Len(grid_thw) |-> grid_thw[g][1]]))

\* torch.max(cu_seqlens[1:] - cu_seqlens[:-1])
max_seqlen(cu) == SetMax({cu[i + 1] - cu[i] : i \in 1..(Len(cu) - 1)})

\* torch.zeros([1, max_seqlen, max_seqlen]) with the slice of every span set to
\* True; a slice is cut at the size of the tensor.  The cells that are True.
attention_mask(cu, size) ==
    {<<i, j>> \in (0..(size - 1)) \X (0..(size - 1)) :
        \E s \in 2..Len(cu) : /\ cu[s - 1] <= i /\ i < cu[s]
                              /\ cu[s - 1] <= j /\ j < cu[s]}

VisionInit ==
    /\ ctor = Idle /\ moe = Idle /\ gm = Idle /\ lora = Idle /\ fwd = Idle /\ lm = Idle
    /\ input_ids = <<>>
    /\ image_grid_thw = None
    /\ pos_pc = "idle"
    /\ position_ids = <<>>
    /\ cu_seqlen_prefill = None
    /\ slots = <<>>
    /\ query = <<>>
    /\ kv = <<>>
    /\ attn_output = <<>>
    /\ events = <<>>
    /\ attn_pc = 0
    /\ calls = 0
    /\ kv_cache = <<>>
    /\ \E n \in 1..MaxImages, m \in MergeSizes, depth \in Depths :
        \E grid_thw \in GridLists(n) :
            vis = [pc |-> "patch_embedding",
                   grid_thw |-> grid_thw, spatial_merge_size |-> m, depth |-> depth,
                   patches |-> 0, pos_ids |-> <<>>, cu_seqlens |-> <<>>, max_seqlen |-> 0,
                   block |-> 0, mask_size |-> 0, attention_mask |-> {},
                   raised |-> "none"]

VisionRest == <<pos_vars, attn_vars, ctor, moe, gm, lora, fwd, lm>>

\* hidden_states = self.patch_embedding(pixel_values).view(-1, self.embed_dim)
VisionPatchEmbedding ==
    /\ vis.pc = "patch_embedding"
    /\ vis' = [vis EXCEPT !.pc = "pos_ids",
                          !.patches = cu_seqlens_per_grid(vis.grid_thw)[Len(vis.grid_thw) + 1]]
    /\ UNCHANGED VisionRest

\* for t, h, w in grid_thw: ...; pos_ids = torch.cat(pos_ids, dim=0); cos, sin = ...
VisionPosIds ==
    /\ vis.pc = "pos_ids"
    /\ vis' = IF \A g \in 1..Len(vis.grid_thw) :
                    ReshapeFits(vis.grid_thw[g][2], vis.grid_thw[g][3], vis.spatial_merge_size)
              THEN [vis EXCEPT !.pc = "cu_seqlens",
                               !.pos_ids = pos_ids(vis.grid_thw, vis.spatial_merge_size)]
              ELSE [vis EXCEPT !.pc = "raised", !.raised = "RuntimeError"]
    /\ UNCHANGED VisionRest

\* cu_seqlens = ...; cu_seqlens = F.pad(...); max_seqlen = torch.max(...)
VisionCuSeqlens ==
    /\ vis.pc = "cu_seqlens"
    /\ vis' = [vis EXCEPT !.pc = "blocks",
                          !.cu_seqlens = cu_seqlens(vis.grid_thw),
                          !.max_seqlen = max_seqlen(cu_seqlens(vis.grid_thw))]
    /\ UNCHANGED VisionRest

\* hidden_states = block(hidden_states, cu_seqlens, cos, sin, max_seqlen): the
\* attention builds its mask and calls the fused kernel with the queries of
\* all patches; what the kernel does with a mask of another size is not in
\* this code: it returns or it raises
VisionBlock ==
    /\ vis.pc = "blocks"
    /\ vis.block < vis.depth
    /\ LET v == [vis EXCEPT !.mask_size = vis.max_seqlen,
                            !.attention_mask = attention_mask(vis.cu_seqlens, vis.max_seqlen)]
       IN \/ vis' = [v EXCEPT !.block = @ + 1]
          \/ /\ vis.max_seqlen # vis.patches
             /\ vis' = [v EXCEPT !.pc = "raised", !.raised = "RuntimeError"]
    /\ UNCHANGED VisionRest

\* hidden_states = self.merger(hidden_states); return hidden_states
VisionMerger ==
    /\ vis.pc = "blocks"
    /\ vis.block = vis.depth
    /\ vis' = [vis EXCEPT !.pc = "returned"]
    /\ UNCHANGED VisionRest

VisionNext ==
    \/ VisionPatchEmbedding \/ VisionPosIds \/ VisionCuSeqlens
    \/ VisionBlock \/ VisionMerger

SpecVision == VisionInit /\ [][VisionNext]_vars

(***************************************************************************)
(* Properties of Qwen2VisionModel.forward and Qwen2VLAttention.forward.    *)
(***************************************************************************)
VisionStarted == vis.pc # "idle"
GridRows == 1..Len(vis.grid_thw)
GridT(g) == vis.grid_thw[g][1]
GridH(g) == vis.grid_thw[g][2]
GridW(g) == vis.grid_thw[g][3]

RECURSIVE FramesBefore(_)
FramesBefore(g) == IF g <= 1 THEN 0 ELSE FramesBefore(g - 1) + GridT(g - 1)

RECURSIVE PatchesBefore(_)
PatchesBefore(g) ==
    IF g <= 1 THEN 0
    ELSE PatchesBefore(g - 1) + GridT(g - 1) * GridH(g - 1) * GridW(g - 1)

NumPatches == PatchesBefore(Len(vis.grid_thw) + 1)
SameSpan(i, j) ==
    \E s \in 1..(Len(vis.cu_seqlens) - 1) :
        /\ vis.cu_seqlens[s] <= i /\ i < vis.cu_seqlens[s + 1]
        /\ vis.cu_seqlens[s] <= j /\ j < vis.cu_seqlens[s + 1]

\* C23: the mask that the attention of a vision block hands the kernel covers
\* every pair (i, j) of the N patches and allows i to attend to j exactly when
\* both lie in the same span of cu_seqlens, for any number of spans.
C23_BlockDiagonalMask ==
    (VisionStarted /\ vis.block > 0) =>
        /\ vis.mask_size = NumPatches
        /\ \A i \in 0..(NumPatches - 1), j \in 0..(NumPatches - 1) :
             (<<i, j>> \in vis.attention_mask) <=> SameSpan(i, j)

\* C27: the boundaries start at 0, increase strictly, hold one span of length
\* h*w for every temporal frame of every grid, in grid order, and end at the
\* sum of t*h*w over the grids.
C27_FrameSpans ==
    (VisionStarted /\ vis.cu_seqlens # <<>>) =>
        LET cu == vis.cu_seqlens IN
        /\ cu[1] = 0
        /\ \A s \in 1..(Len(cu) - 1) : cu[s] < cu[s + 1]
        /\ Len(cu) = FramesBefore(Len(vis.grid_thw) + 1) + 1
        /\ \A g \in GridRows : \A f \in 1..GridT(g) :
             cu[FramesBefore(g) + f + 1] - cu[FramesBefore(g) + f] = GridH(g) * GridW(g)
        /\ cu[Len(cu)] = NumPatches

C27_Witness ==
    /\ VisionStarted /\ vis.pc = "returned"
    /\ vis.grid_thw = <<<<2, 1, 2>>, <<1, 2, 2>>>>
    /\ vis.cu_seqlens = <<0, 2, 4, 8>>

\* entry k (0-based) of one frame of an h-by-w grid with merge size m: blocks of
\* m*m entries, the blocks row by row, the cells of a block row by row
BlockOrdered(k, w, m) ==
    LET block == k \div (m * m)
        cell == k % (m * m)
    IN <<(block \div (w \div m)) * m + (cell \div m), (block % (w \div m)) * m + (cell % m)>>

FrameEntry(g, f, k) == vis.pos_ids[PatchesBefore(g) + (f - 1) * GridH(g) * GridW(g) + k + 1]

\* C28: with h and w divisible by the merge size m, the (row, col) position
\* ids of one frame hold every pair of range(h) x range(w) exactly once, in
\* m-by-m blocks (blocks row-major, row-major inside a block); the frame is
\* repeated t times, t*h*w entries per grid, the grids in order.
C28_MergeBlockOrder ==
    (/\ VisionStarted /\ vis.pc \notin {"patch_embedding", "pos_ids"}
     /\ \A g \in GridRows : /\ GridH(g) % vis.spatial_merge_size = 0
                             /\ GridW(g) % vis.spatial_merge_size = 0) =>
        /\ Len(vis.pos_ids) = NumPatches
        /\ \A g \in GridRows :
             /\ \A f \in 1..GridT(g) :
                  /\ \A k \in 0..(GridH(g) * GridW(g) - 1) :
                       FrameEntry(g, f, k) = BlockOrdered(k, GridW(g), vis.spatial_merge_size)
                  /\ {FrameEntry(g, f, k) : k \in 0..(GridH(g) * GridW(g) - 1)} =
                       (0..(GridH(g) - 1)) \X (0..(GridW(g) - 1))

C28_Witness ==
    /\ VisionStarted /\ vis.pc = "returned"
    /\ vis.spatial_merge_size = 2
    /\ vis.grid_thw = <<<<2, 2, 4>>, <<1, 4, 4>>>>
    /\ SubSeq(vis.pos_ids, 1, 8) =
         <<<<0, 0>>, <<0, 1>>, <<1, 0>>, <<1, 1>>, <<0, 2>>, <<0, 3>>, <<1, 2>>, <<1, 3>>>>
    /\ Len(vis.pos_ids) = 32

(***************************************************************************)
(* FlashLlamaForCausalLM (flash_llama_modeling.py): the logits scaling of  *)
(* __init__ and forward.  Activations are not interpreted: a tensor is the *)
(* name of what produced it and the number of divisions by logits_scaling  *)
(* applied to it, the division of the head's weights included.             *)
(***************************************************************************)
LogitsScalings == {<<>>, <<8>>}

LmInit ==
    /\ ctor = Idle /\ moe = Idle /\ gm = Idle /\ lora = Idle /\ fwd = Idle /\ vis = Idle
    /\ input_ids = <<>>
    /\ image_grid_thw = None
    /\ pos_pc = "idle"
    /\ position_ids = <<>>
    /\ cu_seqlen_prefill = None
    /\ slots = <<>>
    /\ query = <<>>
    /\ kv = <<>>
    /\ attn_output = <<>>
    /\ events = <<>>
    /\ attn_pc = 0
    /\ calls = 0
    /\ kv_cache = <<>>
    /\ \E logits_scaling \in LogitsScalings, head \in BOOLEAN, speculator \in BOOLEAN :
        /\ head \/ speculator
        /\ lm = [pc |-> "lm_head",
                 config |-> [logits_scaling |-> logits_scaling],
                 head |-> head, speculator |-> speculator,
                 weight_divisions |-> 0,
                 logits_scaling |-> <<>>, logits_scaled |-> <<>>,
                 forwards |-> 0, lm_head_indices |-> FALSE,
                 hidden_states |-> "none",
                 logits |-> [from |-> "none", divisions |-> 0],
                 speculative_logits |-> [from |-> "none", divisions |-> 0],
                 raised |-> "none"]

LmRest == <<pos_vars, attn_vars, ctor, moe, gm, lora, fwd, vis>>

\* self.embed_tokens = ...; self.model = ...; self.lm_head = SpeculativeHead.load(...)
LmLoadHead ==
    /\ lm.pc = "lm_head"
    /\ lm' = [lm EXCEPT !.pc = "logits_scaling"]
    /\ UNCHANGED LmRest

\* self.logits_scaling = getattr(config, "logits_scaling", None)
\* if self.logits_scaling is not None and self.lm_head.head is not None:
\*     try: weight /= self.logits_scaling; self.logits_scaled = True
\*     except Exception: self.logits_scaled = False
LmLogitsScaling ==
    /\ lm.pc = "logits_scaling"
    /\ LET l == [lm EXCEPT !.pc = "constructed",
                           !.logits_scaling = lm.config.logits_scaling]
       IN \/ /\ l.logits_scaling # <<>> /\ lm.head
             /\ \/ lm' = [l EXCEPT !.weight_divisions = @ + 1, !.logits_scaled = <<TRUE>>]
                \/ lm' = [l EXCEPT !.logits_scaled = <<FALSE>>]
          \/ /\ ~(l.logits_scaling # <<>> /\ lm.head)
             /\ lm' = l
    /\ UNCHANGED LmRest

\* inputs_embeds = self.embed_tokens(input_ids); hidden_states = self.model(...)
LmModel ==
    /\ lm.pc \in {"constructed", "returned"}
    /\ lm.forwards < MaxForwards
    /\ \E lm_head_indices \in BOOLEAN :
        lm' = [lm EXCEPT !.pc = "lm_head_indices", !.forwards = @ + 1,
                         !.lm_head_indices = lm_head_indices,
                         !.hidden_states = "model",
                         !.logits = [from |-> "none", divisions |-> 0],
                         !.speculative_logits = [from |-> "none", divisions |-> 0]]
    /\ UNCHANGED LmRest

\* if lm_head_indices is not None: hidden_states = hidden_states[lm_head_indices]
LmHeadIndices ==
    /\ lm.pc = "lm_head_indices"
    /\ lm' = [lm EXCEPT !.pc = "head",
                        !.hidden_states = IF lm.lm_head_indices
                                          THEN "model[lm_head_indices]" ELSE @]
    /\ UNCHANGED LmRest

\* logits, speculative_logits = self.lm_head(hidden_states)
LmHead ==
    /\ lm.pc = "head"
    /\ lm' = [lm EXCEPT
                !.pc = "scale",
                !.logits = [from |-> lm.hidden_states, divisions |-> lm.weight_divisions],
                !.speculative_logits =
                    IF lm.speculator THEN [from |-> lm.hidden_states, divisions |-> 0]
                    ELSE @]
    /\ UNCHANGED LmRest

\* if self.logits_scaling is not None and not self.logits_scaled: logits /= ...
\* reading an attribute that __init__ never assigned raises AttributeError
LmScale ==
    /\ lm.pc = "scale"
    /\ lm' = IF lm.logits_scaling = <<>> THEN [lm EXCEPT !.pc = "return"]
             ELSE IF lm.logits_scaled = <<>>
             THEN [lm EXCEPT !.pc = "raised", !.raised = "AttributeError"]
             ELSE IF lm.logits_scaled = <<TRUE>> THEN [lm EXCEPT !.pc = "return"]
             ELSE [lm EXCEPT !.pc = "return",
                             !.logits.divisions = @ + 1,
                             !.speculative_logits.divisions =
                                 IF lm.speculator THEN @ + 1 ELSE @]
    /\ UNCHANGED LmRest

\* return logits, speculative_logits
LmReturn ==
    /\ lm.pc = "return"
    /\ lm' = [lm EXCEPT !.pc = "returned"]
    /\ UNCHANGED LmRest

LmNext ==
    \/ LmLoadHead \/ LmLogitsScaling \/ LmModel \/ LmHeadIndices
    \/ LmHead \/ LmScale \/ LmReturn

SpecCausalLM == LmInit /\ [][LmNext]_vars

\* C24: with logits_scaling configured, every forward returns logits divided by
\* logits_scaling exactly once, whether __init__ divided the head's weights
\* or not (no plain head, or the division of the weights failed), and forward
\* never fails because __init__ left logits_scaled unset.
C24_ScaledExactlyOnce ==
    (lm.pc # "idle" /\ lm.config.logits_scaling # <<>>) =>
        /\ lm.raised # "AttributeError"
        /\ lm.pc \in {"return", "returned"} => lm.logits.divisions = 1

\* C29: after get_model_with_lora_adapters returns for a list of n adapters,
\* adapter_to_index maps the adapter at list position p (0-based) to p + 1,
\* loaded_adapters is exactly 1..n, index 0 is never assigned, two distinct
\* adapter ids never share an index, and an empty list adds nothing.
C29_IndicesFromOne ==
    (lora.pc = "returned") =>
        LET n == Len(lora.lora_adapters) IN
        /\ \A p \in 0..(n - 1) : <<lora.lora_adapters[p + 1], p + 1>> \in lora.adapter_to_index
        /\ lora.loaded_adapters = 1..n
        /\ \A e \in lora.adapter_to_index : e[2] # 0
        /\ \A e1 \in lora.adapter_to_index, e2 \in lora.adapter_to_index :
             e1[1] # e2[1] => e1[2] # e2[2]
        /\ n = 0 => (lora.adapter_to_index = {} /\ lora.loaded_adapters = {})

\* C25: with image_grid_thw supplied, get_position_ids returns only when the
\* vision-start markers, the vision-end markers and the grid rows are equally
\* many and at least one; for every other combination the call raises.
C25_ReturnsOnlyWhenCountsAgree ==
    (pos_pc = "returned" /\ ~image_grid_thw.none) =>
        /\ Len(vision_starts(input_ids)) = Len(vision_ends(input_ids))
        /\ Len(vision_starts(input_ids)) = Len(image_grid_thw.rows)
        /\ Len(image_grid_thw.rows) >= 1

====
